---- MODULE Spec2Model ----
(***************************************************************************)
(* Model of the NIIMBOT web client: the Dialect-A packet codec             *)
(* (NiimbotPacket), and the request/response routers of the two clients    *)
(* (PrinterClientWeb in printerClient.js, PrinterClient in niimbot-web.js).*)
(***************************************************************************)
EXTENDS Integers, Sequences, FiniteSets, TLC

\* ------------------------------------------------------------------------
\* Bounds of the model
\* ------------------------------------------------------------------------
MaxLen == 2            \* longest enumerated payload of an encoded packet
MaxRaw == 5            \* longest raw buffer handed to fromBytes directly
MaxChunkFrames == 2    \* most frames the printer puts in one chunk
MaxBuf == 16           \* most bytes the parse buffer is let to hold

\* ------------------------------------------------------------------------
\* Bytes and JavaScript typed-array semantics
\* ------------------------------------------------------------------------
\* number of values of one Uint8Array element: stores are reduced modulo it
ByteMod == 256

\* value of an out-of-range typed-array read (JavaScript undefined)
Undef == -1

\* bytes[i] with a 0-based index: undefined outside the array
At(bytes, i) == IF i >= 0 /\ i < Len(bytes) THEN bytes[i + 1] ELSE Undef

\* ToInt32 of an operand of a bitwise operator: undefined becomes 0
ToInt(x) == IF x = Undef THEN 0 ELSE x

\* a ^ b on non-negative integers
RECURSIVE BitXor(_, _)
BitXor(a, b) ==
  IF a = 0 THEN b
  ELSE IF b = 0 THEN a
  ELSE (((a % 2) + (b % 2)) % 2) + 2 * BitXor(a \div 2, b \div 2)

\* XOR of data[lo..hi] (1-based); the range is split in halves to keep the
\* evaluation shallow, which XOR's associativity allows
RECURSIVE XorRange(_, _, _)
XorRange(data, lo, hi) ==
  IF lo > hi THEN 0
  ELSE IF lo = hi THEN data[lo]
  ELSE LET mid == (lo + hi) \div 2
       IN  BitXor(XorRange(data, lo, mid), XorRange(data, mid + 1, hi))

\* for (let b of data) checksum ^= b
XorAll(acc, data) == BitXor(acc, XorRange(data, 1, Len(data)))

\* bytes.slice(from, to) with 0-based, clamped indices
Slice(bytes, from, to) ==
  LET hi == IF to > Len(bytes) THEN Len(bytes) ELSE to
  IN  IF from >= hi THEN <<>> ELSE SubSeq(bytes, from + 1, hi)

\* all sequences over S of length 0..n
SeqUpTo(S, n) == UNION { [1..k -> S] : k \in 0..n }

\* ------------------------------------------------------------------------
\* NiimbotPacket
\* ------------------------------------------------------------------------
NoData == <<>>

\* outcome of fromBytes: a packet, or the message of the Error it throws
Packet(type, data) == [ok |-> TRUE, err |-> "none", type |-> type, data |-> data]
Thrown(msg) == [ok |-> FALSE, err |-> msg, type |-> Undef, data |-> NoData]

ErrHeader == "Invalid packet header"
ErrTrailer == "Invalid packet trailer"
ErrChecksum == "Checksum mismatch"

\* fromBytes with the payload slice one byte short
fromBytesShortSlice(bytes) ==
  IF At(bytes, 0) # 85 \/ At(bytes, 1) # 85 THEN Thrown(ErrHeader)
  ELSE IF At(bytes, Len(bytes) - 2) # 170 \/ At(bytes, Len(bytes) - 1) # 170
       THEN Thrown(ErrTrailer)
  ELSE LET type == At(bytes, 2)
           length == At(bytes, 3)
           data == Slice(bytes, 4, 3 + ToInt(length))
           checksum == XorAll(BitXor(ToInt(type), ToInt(length)), data)
       IN  IF checksum # At(bytes, Len(bytes) - 3) THEN Thrown(ErrChecksum)
           ELSE Packet(type, data)

fromBytes(bytes) ==
  IF At(bytes, 0) # 85 \/ At(bytes, 1) # 85 THEN Thrown(ErrHeader)
  ELSE IF At(bytes, Len(bytes) - 2) # 170 \/ At(bytes, Len(bytes) - 1) # 170
       THEN Thrown(ErrTrailer)
  ELSE LET type == At(bytes, 2)
           length == At(bytes, 3)
           data == Slice(bytes, 4, 4 + ToInt(length))
           checksum == XorAll(BitXor(ToInt(type), ToInt(length)), data)
       IN  IF checksum # At(bytes, Len(bytes) - 3) THEN Thrown(ErrChecksum)
           ELSE Packet(type, data)

\* toBytes whose checksum leaves out the length byte
toBytesNoLenInSum(type, data) ==
  LET checksum == XorAll(type, data)
  IN  <<85, 85, type % ByteMod, Len(data) % ByteMod>> \o data
        \o <<checksum % ByteMod, 170, 170>>

\* toBytes that writes the checksum after the trailer's first byte
toBytesSwapped(type, data) ==
  LET checksum == XorAll(BitXor(type, Len(data)), data)
  IN  <<85, 85, type % ByteMod, Len(data) % ByteMod>> \o data
        \o <<170, checksum % ByteMod, 170>>

toBytes(type, data) ==
  LET checksum == XorAll(BitXor(type, Len(data)), data)
  IN  <<85, 85, type % ByteMod, Len(data) % ByteMod>> \o data
        \o <<checksum % ByteMod, 170, 170>>

\* ------------------------------------------------------------------------
\* Codec harness: encode a packet, corrupt or inject bytes, decode, re-encode
\* ------------------------------------------------------------------------
VARIABLES cpc, pkt, wire, frame0, src, dec, wire2

\* Client session: the client in use, its transport, the call in progress
VARIABLES impl, via, tpc, call, expectedType, attempt, reads, writes,
          result, error, buffer, seen

\* Print job of PrinterClient.printImage: its position, its inputs, the
\* frames of the packets encodeImage yields for its canvas, and the history
\* of what it wrote and what its helpers returned
VARIABLES jpc, imageCanvas, target, canvas, copies, rowFrames, row, sent, acked,
          rejected, endPolls

\* Two callers of transceive on one client
VARIABLES cimpl, cst, cexp, catt, cbuf, wlog

\* Raster encoders: the canvas and the output of each encoder; printViaUSB
\* and printViaBLE: the transport opened and the packets written to it
VARIABLES ipc, image, dens, rows, bitmap, monoBits, linePackets, pvia, pvi

\* BLE write paths: the transport in use, the data, the loop index and the
\* writeValue calls issued so far
VARIABLES bpc, bpath, bdata, bi, issued

\* Byte stream of a printer into the buffer of PrinterClientWeb (rvia "usb" or
\* "ble") or into the reads of PrinterClient.transceive (rvia "transport"):
\* the stream, how much of it has arrived, this._buffer, the packets and the
\* error that the calls have produced, the response type and the attempt
\* counter of transceive
VARIABLES rpc, rvia, rstream, rrecv, rbuf, rout, rerr, rexp, ratt

\* USB connect: the connect in use, the interfaces of the device's
\* configuration, the position in connect, the interface number and the
\* endpoint numbers it has cached, the interfaces claimed so far
VARIABLES upc, uimpl, udev, interfaceNumber, endpointOut, endpointIn, claimed

\* getInfo after its transceive: the client, the key asked for, what
\* transceive returned and what getInfo returns
VARIABLES gpc, gimpl, gkey, resp, info

\* constructNiimbotPacket: its position, its argument and what it returns
VARIABLES xpc, bitmapBytes, niimbotPacket

\* Calls of transceive one after the other, with a printer that answers
\* late: the client and its transport, the state and the number of the
\* call, its attempts, this._buffer, the replies on their way, the requests
\* the printer has not answered and the request whose reply was returned
VARIABLES pairImpl, pairVia, pairState, callNo, pairAttempt, pairBuffer,
          wireReplies, owed, returnedFor

\* The page: which printDesign it has, printerClient, isPrinting, status,
\* the images that are loading and the printImage calls in flight, and the
\* history of the Print clicks (all of them, and those printDesign ignored)
VARIABLES variant, printerClient, isPrinting, status, loads, jobs, clicks,
          ignored

\* The transport of one printViaUSB / printViaBLE call: the position in the
\* call, the function called, packets.length, the writes that resolved,
\* device.opened (server.connected), the calls of transport.close, the
\* error of the write that failed and what the caller's promise settles with
VARIABLES lpc, transportKind, nPackets, nWritten, opened, closeCalls,
          writeError, jobOutcome

codecVars == <<cpc, pkt, wire, frame0, src, dec, wire2>>
txVars == <<impl, via, tpc, call, expectedType, attempt, reads, writes,
            result, error, buffer, seen>>
jobVars == <<jpc, imageCanvas, target, canvas, copies, rowFrames, row, sent, acked,
             rejected, endPolls>>
concVars == <<cimpl, cst, cexp, catt, cbuf, wlog>>
imgVars == <<ipc, image, dens, rows, bitmap, monoBits, linePackets, pvia, pvi>>
bleVars == <<bpc, bpath, bdata, bi, issued>>
rtVars == <<rpc, rvia, rstream, rrecv, rbuf, rout, rerr, rexp, ratt>>
usbVars == <<upc, uimpl, udev, interfaceNumber, endpointOut, endpointIn, claimed>>
infoVars == <<gpc, gimpl, gkey, resp, info>>
exportVars == <<xpc, bitmapBytes, niimbotPacket>>
pairVars == <<pairImpl, pairVia, pairState, callNo, pairAttempt, pairBuffer,
              wireReplies, owed, returnedFor>>
pageVars == <<variant, printerClient, isPrinting, status, loads, jobs, clicks,
              ignored>>
lifeVars == <<lpc, transportKind, nPackets, nWritten, opened, closeCalls,
              writeError, jobOutcome>>
extVars == <<usbVars, infoVars, exportVars, pairVars, pageVars, lifeVars>>
auxVars == <<concVars, imgVars, bleVars, rtVars, extVars>>
vars == <<cpc, pkt, wire, frame0, src, dec, wire2,
          impl, via, tpc, call, expectedType, attempt, reads, writes,
          result, error, buffer, seen,
          jpc, imageCanvas, target, canvas, copies, rowFrames, row, sent, acked, rejected,
          endPolls,
          cimpl, cst, cexp, catt, cbuf, wlog,
          ipc, image, dens, rows, bitmap, monoBits, linePackets, pvia, pvi,
          bpc, bpath, bdata, bi, issued,
          rpc, rvia, rstream, rrecv, rbuf, rout, rerr, rexp, ratt,
          upc, uimpl, udev, interfaceNumber, endpointOut, endpointIn, claimed,
          gpc, gimpl, gkey, resp, info,
          xpc, bitmapBytes, niimbotPacket,
          pairImpl, pairVia, pairState, callNo, pairAttempt, pairBuffer,
          wireReplies, owed, returnedFor,
          variant, printerClient, isPrinting, status, loads, jobs, clicks, ignored,
          lpc, transportKind, nPackets, nWritten, opened, closeCalls, writeError,
          jobOutcome>>

\* one-byte length field: the longest payload a frame can describe
MaxPayloadLen == 255

CodecTypes == {0, 1, 19, 85, 170, 255}
PayloadBytes == {0, 1, 128}
ScenarioPayloads == { <<0, 24, 1, 128>> }
FullPayloads == { [i \in 1..MaxPayloadLen |-> 1] }
LongPayloads == { [i \in 1..(MaxPayloadLen + 1) |-> 0] }
Payloads == SeqUpTo(PayloadBytes, MaxLen) \cup ScenarioPayloads

\* the (type, payload) pairs that are encoded: every enumerated payload under
\* every type, and the payloads at and past the length limit under one type
EncInputs == (CodecTypes \X Payloads) \cup ({1} \X (FullPayloads \cup LongPayloads))

RawBytes == {0, 1, 85, 170}
Buffers == SeqUpTo(RawBytes, MaxRaw)

NoPkt == [type |-> Undef, data |-> NoData]
NoDec == Thrown("not decoded")

\* b with bit k inverted
FlipBitOf(b, k) == IF ((b \div (2 ^ k)) % 2) = 1 THEN b - (2 ^ k) ELSE b + (2 ^ k)

CodecIdle ==
  /\ cpc = "start"
  /\ pkt = NoPkt
  /\ wire = <<>>
  /\ frame0 = <<>>
  /\ src = "none"
  /\ dec = NoDec
  /\ wire2 = <<>>

\* new NiimbotPacket(type, payload).toBytes()
Encode(t, p) ==
  /\ cpc = "start"
  /\ pkt' = [type |-> t, data |-> p]
  /\ wire' = toBytes(t, p)
  /\ frame0' = toBytes(t, p)
  /\ src' = "enc"
  /\ cpc' = "wire"
  /\ UNCHANGED <<dec, wire2>>
  /\ UNCHANGED <<txVars, jobVars, auxVars>>

\* one bit of byte i (0-based) of an encoded frame is inverted in transit
\* (the frames of the enumerated payloads)
FlipBit(i, k) ==
  /\ cpc = "wire"
  /\ src = "enc"
  /\ pkt.data \in Payloads
  /\ i < Len(wire)
  /\ wire' = [wire EXCEPT ![i + 1] = FlipBitOf(wire[i + 1], k)]
  /\ src' = "flip"
  /\ UNCHANGED <<cpc, pkt, frame0, dec, wire2>>
  /\ UNCHANGED <<txVars, jobVars, auxVars>>

\* an arbitrary buffer is handed to the decoder
Inject(b) ==
  /\ cpc = "start"
  /\ wire' = b
  /\ src' = "raw"
  /\ cpc' = "wire"
  /\ UNCHANGED <<pkt, frame0, dec, wire2>>
  /\ UNCHANGED <<txVars, jobVars, auxVars>>

\* NiimbotPacket.fromBytes(wire)
Decode ==
  /\ cpc = "wire"
  /\ dec' = fromBytes(wire)
  /\ cpc' = "decoded"
  /\ UNCHANGED <<pkt, wire, frame0, src, wire2>>
  /\ UNCHANGED <<txVars, jobVars, auxVars>>

\* NiimbotPacket.fromBytes(wire).toBytes()
ReEncode ==
  /\ cpc = "decoded"
  /\ dec.ok
  /\ wire2' = toBytes(dec.type, dec.data)
  /\ cpc' = "reencoded"
  /\ UNCHANGED <<pkt, wire, frame0, src, dec>>
  /\ UNCHANGED <<txVars, jobVars, auxVars>>

\* ------------------------------------------------------------------------
\* Request codes and command helpers
\* ------------------------------------------------------------------------
GET_INFO == 64
GET_RFID == 26
HEARTBEAT == 220
SET_LABEL_TYPE == 35
SET_LABEL_DENSITY == 33
START_PRINT == 1
END_PRINT == 243
START_PAGE_PRINT == 3
END_PAGE_PRINT == 227
ALLOW_PRINT_CLEAR == 32
SET_DIMENSION == 19
SET_QUANTITY == 21
GET_PRINT_STATUS == 163

\* type of the printer's error packet
ERROR_PACKET == 219

\* (v >> 8) & 0xff and v & 0xff
HiByte(v) == (v \div 256) % 256
LoByte(v) == v % 256

\* a helper's call of transceive: request code, payload, response offset;
\* valid is FALSE when the helper throws before it reaches transceive
Cmd(name, req, data, off, valid) ==
  [name |-> name, req |-> req, data |-> data, off |-> off, valid |-> valid]

NoCall == Cmd("none", 0, <<>>, 0, FALSE)

\* --- PrinterClientWeb (printerClient.js) ---
\* getInfo with a wrong response offset
WebGetInfoOffsetOne(key) == Cmd("getInfo", GET_INFO, <<key % ByteMod>>, 1, TRUE)

WebGetInfo(key) == Cmd("getInfo", GET_INFO, <<key % ByteMod>>, key, TRUE)

WebGetRfid == Cmd("getRfid", GET_RFID, <<1>>, 1, TRUE)

WebHeartbeat == Cmd("heartbeat", HEARTBEAT, <<1>>, 1, TRUE)

\* setLabelType with the default response offset
WebSetLabelTypeOffsetOne(n) ==
  Cmd("setLabelType", SET_LABEL_TYPE, <<n % ByteMod>>, 1, ~(n < 1 \/ n > 3))

WebSetLabelType(n) ==
  Cmd("setLabelType", SET_LABEL_TYPE, <<n % ByteMod>>, 16, ~(n < 1 \/ n > 3))

WebSetLabelDensity(n) ==
  Cmd("setLabelDensity", SET_LABEL_DENSITY, <<n % ByteMod>>, 16, ~(n < 1 \/ n > 3))

WebStartPrint == Cmd("startPrint", START_PRINT, <<1>>, 1, TRUE)

WebEndPrint == Cmd("endPrint", END_PRINT, <<1>>, 1, TRUE)

WebStartPagePrint == Cmd("startPagePrint", START_PAGE_PRINT, <<1>>, 1, TRUE)

WebEndPagePrint == Cmd("endPagePrint", END_PAGE_PRINT, <<1>>, 1, TRUE)

WebAllowPrintClear == Cmd("allowPrintClear", ALLOW_PRINT_CLEAR, <<1>>, 16, TRUE)

WebSetDimension(w, h) ==
  Cmd("setDimension", SET_DIMENSION,
      <<HiByte(w), LoByte(w), HiByte(h), LoByte(h)>>, 1, TRUE)

WebSetQuantity(n) ==
  Cmd("setQuantity", SET_QUANTITY, <<HiByte(n), LoByte(n)>>, 1, TRUE)

WebGetPrintStatus == Cmd("getPrintStatus", GET_PRINT_STATUS, <<1>>, 16, TRUE)

\* --- PrinterClient (niimbot-web.js) ---
ClientSetLabelDensity(density) ==
  Cmd("setLabelDensity", 33, <<density % ByteMod>>, 16, TRUE)

ClientSetLabelType(type) ==
  Cmd("setLabelType", 35, <<type % ByteMod>>, 16, TRUE)

ClientStartPrint == Cmd("startPrint", 1, <<1>>, 1, TRUE)

ClientEndPrint == Cmd("endPrint", 243, <<1>>, 1, TRUE)

ClientStartPagePrint == Cmd("startPagePrint", 3, <<1>>, 1, TRUE)

ClientEndPagePrint == Cmd("endPagePrint", 227, <<1>>, 1, TRUE)

\* view.setUint16(0, width, false); view.setUint16(2, height, false)
ClientSetDimension(width, height) ==
  Cmd("setDimension", 19,
      <<HiByte(width), LoByte(width), HiByte(height), LoByte(height)>>, 1, TRUE)

ClientGetInfo(key) == Cmd("getInfo", 64, <<key % ByteMod>>, key, TRUE)

ClientSetQuantity(quantity) ==
  Cmd("setQuantity", 21, <<HiByte(quantity), LoByte(quantity)>>, 1, TRUE)

\* arguments the callers pass
InfoKeys == {1, 11}
LabelArgs == {0, 1, 4}
DensityArgs == {1, 3}
DimArgs == { <<384, 40>> }
QuantityArgs == {2}

WebCalls ==
  { WebGetInfo(k) : k \in InfoKeys }
    \cup { WebGetRfid, WebHeartbeat, WebStartPrint, WebEndPrint,
           WebStartPagePrint, WebEndPagePrint, WebAllowPrintClear,
           WebGetPrintStatus }
    \cup { WebSetLabelType(n) : n \in LabelArgs }
    \cup { WebSetLabelDensity(n) : n \in LabelArgs }
    \cup { WebSetDimension(d[1], d[2]) : d \in DimArgs }
    \cup { WebSetQuantity(n) : n \in QuantityArgs }

ClientCalls ==
  { ClientGetInfo(k) : k \in InfoKeys }
    \cup { ClientStartPrint, ClientEndPrint, ClientStartPagePrint,
           ClientEndPagePrint }
    \cup { ClientSetLabelDensity(n) : n \in DensityArgs }
    \cup { ClientSetLabelType(n) : n \in {1} }
    \cup { ClientSetDimension(d[2], d[1]) : d \in DimArgs }
    \cup { ClientSetQuantity(n) : n \in QuantityArgs }

\* ------------------------------------------------------------------------
\* The printer: what it may send while a call is in progress
\* ------------------------------------------------------------------------
AckData == { <<0>>, <<1>> }

\* types of the frames the printer may send during call c: the request code
\* plus either offset, the error packet and, for GET_INFO(k), k and 0x40 + k
RespTypes(c) ==
  { (c.req + 1) % ByteMod, (c.req + 16) % ByteMod, ERROR_PACKET }
    \cup (IF c.name = "getInfo"
          THEN { c.data[1], (c.req + c.data[1]) % ByteMod } ELSE {})

RespFrames(c) == { toBytes(t, d) : t \in RespTypes(c), d \in AckData }

\* concatenation of a sequence of byte sequences
RECURSIVE Flatten(_)
Flatten(ss) == IF ss = <<>> THEN <<>> ELSE Head(ss) \o Flatten(Tail(ss))

\* a frame that arrives damaged: type 0, no payload, wrong checksum byte
BadFrame == <<85, 85, 0, 0, 1, 170, 170>>

\* one chunk of printer output: up to MaxChunkFrames whole frames, or the
\* damaged frame
Chunks(c) ==
  { Flatten(fs) : fs \in SeqUpTo(RespFrames(c), MaxChunkFrames) }
    \cup { BadFrame }

\* ------------------------------------------------------------------------
\* PrinterClientWeb: receivePackets and transceive
\* ------------------------------------------------------------------------
\* outcome of receivePackets: the packets returned, the buffer left behind,
\* and the message of the Error thrown by fromBytes ("none" when it returns)
RECURSIVE ParseLoop(_, _)
ParseLoop(buf, packets) ==
  IF Len(buf) > 4
  THEN LET len == buf[4] + 7
       IN  IF Len(buf) < len
           THEN [packets |-> packets, buffer |-> buf, err |-> "none"]
           ELSE LET p == fromBytes(SubSeq(buf, 1, len))
                IN  IF ~p.ok
                    THEN [packets |-> <<>>, buffer |-> buf, err |-> p.err]
                    ELSE ParseLoop(SubSeq(buf, len + 1, Len(buf)),
                                   Append(packets, p))
  ELSE [packets |-> packets, buffer |-> buf, err |-> "none"]

receivePackets(buf) == ParseLoop(buf, <<>>)

\* number of polling rounds of one transceive
WebPollRoundsMore == 6 + 1

WebPollRounds == 6

ClientPollRounds == 6

Null == [ok |-> FALSE, err |-> "null", type |-> Undef, data |-> NoData]
NoResult == Thrown("none")

ErrErrorPacket == "Error packet"
ErrNoResponse == "No response received"
ErrRange == "RangeError"
ErrTransport == "TransportIo"
ErrValidation == "Dimension validation failed"

\* resp?.data[0] !== 0, which is true of null and of an empty payload
WebHelperNotZero(r) == r = Null \/ At(r.data, 0) # 0

\* what a command helper of PrinterClientWeb returns:
\* Boolean(resp?.data[0]), false for null, for undefined and for 0
WebHelperReturn(r) == r # Null /\ At(r.data, 0) # Undef /\ At(r.data, 0) # 0

\* index of the first packet at which the scan of transceive stops, 0 if none
FirstHit(packets, expected) ==
  LET stops(i) == packets[i].type = expected \/ packets[i].type = ERROR_PACKET
  IN  IF \E i \in 1..Len(packets) : stops(i)
      THEN CHOOSE i \in 1..Len(packets) : stops(i) /\ \A j \in 1..(i - 1) : ~stops(j)
      ELSE 0

TypesOf(packets, n) == { packets[i].type : i \in 1..n }

SessionIdle ==
  /\ tpc = "idle"
  /\ call = NoCall
  /\ expectedType = Undef
  /\ attempt = 0
  /\ reads = 0
  /\ writes = <<>>
  /\ result = NoResult
  /\ error = "none"
  /\ buffer = <<>>
  /\ seen = {}

\* a helper of PrinterClientWeb is called: its argument check, then the
\* start of transceive up to the end of sendPacket
WebCall(c) ==
  /\ impl = "web"
  /\ tpc = "idle"
  /\ call' = c
  /\ attempt' = 0
  /\ reads' = 0
  /\ result' = NoResult
  /\ seen' = {}
  /\ IF ~c.valid
     THEN /\ tpc' = "failed"
          /\ error' = ErrRange
          /\ expectedType' = Undef
          /\ writes' = <<>>
     ELSE /\ expectedType' = c.req + c.off
          /\ writes' = <<toBytes(c.req, c.data)>>
          /\ \E wok \in BOOLEAN :
               /\ tpc' = IF wok THEN "polling" ELSE "failed"
               /\ error' = IF wok THEN "none" ELSE ErrTransport
  /\ UNCHANGED <<impl, via, buffer>>
  /\ UNCHANGED <<codecVars, jobVars, auxVars>>

\* the scan of a round that leaves the parsed frames in the buffer
WebScanKeep(buf) ==
  LET rp == receivePackets(buf)
      hit == FirstHit(rp.packets, expectedType)
  IN  /\ buffer' = buf
      /\ reads' = reads + 1
      /\ IF rp.err # "none"
         THEN /\ tpc' = "failed"
              /\ error' = rp.err
              /\ UNCHANGED <<result, attempt, seen>>
         ELSE IF hit = 0
         THEN /\ seen' = seen \cup TypesOf(rp.packets, Len(rp.packets))
              /\ attempt' = attempt + 1
              /\ UNCHANGED <<tpc, error, result>>
         ELSE /\ seen' = seen \cup TypesOf(rp.packets, hit)
              /\ IF rp.packets[hit].type = expectedType
                 THEN /\ tpc' = "returned"
                      /\ result' = rp.packets[hit]
                      /\ UNCHANGED error
                 ELSE /\ tpc' = "failed"
                      /\ error' = ErrErrorPacket
                      /\ UNCHANGED result
              /\ UNCHANGED attempt

\* the scan of one round's packets and what follows from it
WebScan(buf) ==
  LET rp == receivePackets(buf)
      hit == FirstHit(rp.packets, expectedType)
  IN  /\ buffer' = rp.buffer
      /\ reads' = reads + 1
      /\ IF rp.err # "none"
         THEN /\ tpc' = "failed"
              /\ error' = rp.err
              /\ UNCHANGED <<result, attempt, seen>>
         ELSE IF hit = 0
         THEN /\ seen' = seen \cup TypesOf(rp.packets, Len(rp.packets))
              /\ attempt' = attempt + 1
              /\ UNCHANGED <<tpc, error, result>>
         ELSE /\ seen' = seen \cup TypesOf(rp.packets, hit)
              /\ IF rp.packets[hit].type = expectedType
                 THEN /\ tpc' = "returned"
                      /\ result' = rp.packets[hit]
                      /\ UNCHANGED error
                 ELSE /\ tpc' = "failed"
                      /\ error' = ErrErrorPacket
                      /\ UNCHANGED result
              /\ UNCHANGED attempt

\* one polling round over USB: a bulk-in transfer, then the scan
WebRoundUsb(chunk) ==
  /\ impl = "web"
  /\ via = "usb"
  /\ tpc = "polling"
  /\ attempt < WebPollRounds
  /\ Len(buffer) + Len(chunk) <= MaxBuf
  /\ WebScan(buffer \o chunk)
  /\ UNCHANGED <<impl, via, call, expectedType, writes>>
  /\ UNCHANGED <<codecVars, jobVars, auxVars>>

\* the bulk-in transfer of a round is rejected
WebReadFail ==
  /\ impl = "web"
  /\ via = "usb"
  /\ tpc = "polling"
  /\ attempt < WebPollRounds
  /\ reads' = reads + 1
  /\ tpc' = "failed"
  /\ error' = ErrTransport
  /\ UNCHANGED <<impl, via, call, expectedType, attempt, writes, result,
                 buffer, seen>>
  /\ UNCHANGED <<codecVars, jobVars, auxVars>>

\* one polling round over BLE: the scan of what the notifications queued
WebRoundBle ==
  /\ impl = "web"
  /\ via = "ble"
  /\ tpc = "polling"
  /\ attempt < WebPollRounds
  /\ WebScan(buffer)
  /\ UNCHANGED <<impl, via, call, expectedType, writes>>
  /\ UNCHANGED <<codecVars, jobVars, auxVars>>

\* characteristicvaluechanged: a notification is appended to the buffer
BleNotify(chunk) ==
  /\ impl = "web"
  /\ via = "ble"
  /\ tpc = "polling"
  /\ attempt < WebPollRounds
  /\ Len(buffer) + Len(chunk) <= MaxBuf
  /\ chunk # <<>>
  /\ buffer' = buffer \o chunk
  /\ UNCHANGED <<impl, via, tpc, call, expectedType, attempt, reads, writes,
                 result, error, seen>>
  /\ UNCHANGED <<codecVars, jobVars, auxVars>>

\* the polling budget is used up: transceive returns null
WebGiveUp ==
  /\ impl = "web"
  /\ tpc = "polling"
  /\ attempt = WebPollRounds
  /\ tpc' = "returned"
  /\ result' = Null
  /\ UNCHANGED <<impl, via, call, expectedType, attempt, reads, writes,
                 error, buffer, seen>>
  /\ UNCHANGED <<codecVars, jobVars, auxVars>>

\* ------------------------------------------------------------------------
\* PrinterClient: transceive
\* ------------------------------------------------------------------------
\* the start of PrinterClient.transceive up to the end of send
ClientSend(c) ==
  /\ impl = "client"
  /\ tpc = "idle"
  /\ call' = c
  /\ attempt' = 0
  /\ reads' = 0
  /\ result' = NoResult
  /\ seen' = {}
  /\ expectedType' = c.off + c.req
  /\ writes' = <<toBytes(c.req, c.data)>>
  /\ \E wok \in BOOLEAN :
       /\ tpc' = IF wok THEN "polling" ELSE "failed"
       /\ error' = IF wok THEN "none" ELSE ErrTransport
  /\ UNCHANGED <<impl, via, buffer>>

\* a helper of PrinterClient is called on its own
ClientCall(c) ==
  /\ ClientSend(c)
  /\ UNCHANGED <<codecVars, jobVars, auxVars>>

\* one attempt: transport.read, then fromBytes of all that was read
ClientAttempt(response) ==
  /\ impl = "client"
  /\ tpc = "polling"
  /\ attempt < ClientPollRounds
  /\ reads' = reads + 1
  /\ LET respPacket == fromBytes(response)
     IN  IF respPacket.ok
         THEN /\ seen' = seen \cup {respPacket.type}
              /\ IF respPacket.type = expectedType
                 THEN /\ tpc' = "returned"
                      /\ result' = respPacket
                      /\ UNCHANGED attempt
                 ELSE /\ attempt' = attempt + 1
                      /\ UNCHANGED <<tpc, result>>
         ELSE /\ attempt' = attempt + 1
              /\ UNCHANGED <<tpc, result, seen>>
  /\ UNCHANGED <<impl, via, call, expectedType, writes, error, buffer>>
  /\ UNCHANGED <<codecVars, jobVars, auxVars>>

\* one attempt whose transport.read throws: caught, the attempt is used up
ClientReadFail ==
  /\ impl = "client"
  /\ tpc = "polling"
  /\ attempt < ClientPollRounds
  /\ reads' = reads + 1
  /\ attempt' = attempt + 1
  /\ UNCHANGED <<impl, via, tpc, call, expectedType, writes, result, error,
                 buffer, seen>>
  /\ UNCHANGED <<codecVars, jobVars, auxVars>>

\* all attempts are used up: transceive throws
ClientGiveUp ==
  /\ impl = "client"
  /\ tpc = "polling"
  /\ attempt = ClientPollRounds
  /\ tpc' = "failed"
  /\ error' = ErrNoResponse
  /\ UNCHANGED <<impl, via, call, expectedType, attempt, reads, writes,
                 result, buffer, seen>>
  /\ UNCHANGED <<codecVars, jobVars, auxVars>>

\* the caller takes the outcome of the call; the client is free again
CallDone ==
  /\ tpc \in {"returned", "failed"}
  /\ tpc' = "idle"
  /\ UNCHANGED <<impl, via, call, expectedType, attempt, reads, writes,
                 result, error, buffer, seen>>
  /\ UNCHANGED <<codecVars, jobVars, auxVars>>

\* ------------------------------------------------------------------------
\* Canvases: what getImageData returns for them
\* ------------------------------------------------------------------------
\* a canvas: its size and its pixels (RGBA), row by row; a pixel list shorter
\* than width * height is a pattern that repeats over the canvas
Canvas(width, height, px) == [width |-> width, height |-> height, px |-> px]

NoCanvas == Canvas(0, 0, <<>>)

\* ctx.getImageData(0, 0, width, height).data[i]
DataAt(cv, i) == cv.px[((i \div 4) % Len(cv.px)) + 1][(i % 4) + 1]

Black == <<0, 0, 0, 255>>
White == <<255, 255, 255, 255>>
MidGrey == <<128, 128, 128, 255>>

\* ------------------------------------------------------------------------
\* PrinterClient.encodeImage
\* ------------------------------------------------------------------------
\* threshold of the fixed mode
FixedThreshold == 128

\* encodeImage's comparison with <= in place of <
ClientInkOrEqual(cv, x, y) ==
  LET pixelIndex == (y * cv.width + x) * 4
      r == DataAt(cv, pixelIndex)
      g == DataAt(cv, pixelIndex + 1)
      b == DataAt(cv, pixelIndex + 2)
  IN  IF (r + g + b) <= 3 * FixedThreshold THEN 1 ELSE 0

\* lineData[x] of row y: (r + g + b) / 3 < 128 ? 1 : 0
ClientInk(cv, x, y) ==
  LET pixelIndex == (y * cv.width + x) * 4
      r == DataAt(cv, pixelIndex)
      g == DataAt(cv, pixelIndex + 1)
      b == DataAt(cv, pixelIndex + 2)
  IN  IF (r + g + b) < 3 * FixedThreshold THEN 1 ELSE 0

\* ceil(n / 8)
CeilDiv8(n) == (n + 7) \div 8

\* the packing loop that shifts by bit instead of 7 - bit
ClientLineBytesLsbFirst(cv, y) ==
  [j \in 1..CeilDiv8(cv.width) |->
     LET i == 8 * (j - 1)
         bitval(bit) == IF i + bit < cv.width /\ ClientInk(cv, i + bit, y) = 1
                        THEN 2 ^ bit ELSE 0
     IN  bitval(0) + bitval(1) + bitval(2) + bitval(3)
           + bitval(4) + bitval(5) + bitval(6) + bitval(7)]

\* lineBytes of row y: byte |= 1 << (7 - bit) for bit < 8 and i + bit < width
ClientLineBytes(cv, y) ==
  [j \in 1..CeilDiv8(cv.width) |->
     LET i == 8 * (j - 1)
         bitval(bit) == IF i + bit < cv.width /\ ClientInk(cv, i + bit, y) = 1
                        THEN 2 ^ (7 - bit) ELSE 0
     IN  bitval(0) + bitval(1) + bitval(2) + bitval(3)
           + bitval(4) + bitval(5) + bitval(6) + bitval(7)]

\* type of an image row packet
IMAGE_ROW == 133

\* view.setUint16(0, y, false): the value is reduced modulo 2^16
Uint16Mod == 65536

\* the packet of row y with the flag byte ahead of the three counts
ClientRowPacketFlagFirst(cv, y) ==
  [type |-> IMAGE_ROW,
   data |-> <<HiByte(y % Uint16Mod), LoByte(y % Uint16Mod), 1, 0, 0, 0>>
              \o ClientLineBytes(cv, y)]

\* the packet of row y: header (row index big endian, 0, 0, 0, 1), line bytes
ClientRowPacket(cv, y) ==
  [type |-> IMAGE_ROW,
   data |-> <<HiByte(y % Uint16Mod), LoByte(y % Uint16Mod), 0, 0, 0, 1>>
              \o ClientLineBytes(cv, y)]

\* the generator that numbers the rows from 1
ClientEncodeImageFromOne(cv) ==
  [k \in 1..cv.height |-> ClientRowPacket(cv, k)]

\* the packets the generator yields, in order
ClientEncodeImage(cv) ==
  [k \in 1..cv.height |-> ClientRowPacket(cv, k - 1)]

\* ------------------------------------------------------------------------
\* PrinterClient.printImage
\* ------------------------------------------------------------------------
MaxRows == 10          \* rows of the canvas printed
MaxEndPolls == 5       \* END_PRINT requests that are logged and counted

\* supportedWidths of the d11 configuration
D11Width == 96

\* maxWidth of the d11 configuration
maxWidth == 96

\* defaults of the options of printImage
DefaultDensity == 3
DefaultLabelType == 1

\* the canvas printed: of the width the d11 configuration supports and at
\* least as high as validateDimensions wants it (10 rows)
JobCanvases == { Canvas(D11Width, MaxRows, <<Black, White, MidGrey>>) }

JobCopies == {1, 2}

\* validateDimensions without its two checks of the width against the
\* configuration
validateDimensionsNoConfig(width, height) ==
  (IF width < 10 THEN {"width at least 10px"} ELSE {})
    \cup (IF height # 0 /\ height < 10 THEN {"height at least 10px"} ELSE {})

\* validateDimensions(width, height): the errors it collects (height 0
\* stands for a missing height)
validateDimensions(width, height) ==
  (IF width > maxWidth THEN {"exceeds maximum"} ELSE {})
    \cup (IF width < 10 THEN {"width at least 10px"} ELSE {})
    \cup (IF height # 0 /\ height < 10 THEN {"height at least 10px"} ELSE {})
    \cup (IF width \notin {D11Width} THEN {"not directly supported"} ELSE {})

\* resizeCanvas(sourceCanvas, { targetWidth, targetHeight }) with the
\* default maintainAspectRatio: the size of the new canvas (0 stands for
\* null; a canvas dimension is an integer, the fraction is dropped); px is
\* what drawImage has painted
resizeCanvas(sourceCanvas, targetWidth, targetHeight, px) ==
  LET w0 == IF targetWidth # 0 THEN targetWidth ELSE sourceCanvas.width
      h0 == IF targetHeight # 0 THEN targetHeight ELSE sourceCanvas.height
  IN  IF targetWidth # 0 /\ targetHeight = 0
      THEN Canvas(w0, (sourceCanvas.height * targetWidth) \div sourceCanvas.width, px)
      ELSE IF targetHeight # 0 /\ targetWidth = 0
      THEN Canvas((sourceCanvas.width * targetHeight) \div sourceCanvas.height, h0, px)
      ELSE Canvas(w0, h0, px)

\* what drawImage may leave on the new canvas: the pattern of the source or
\* the white background only
Redrawn(sourceCanvas) == {sourceCanvas.px, <<White>>}

\* the calls of printImage, <<imageCanvas, copies, targetWidth,
\* targetHeight>>: the supported canvas with each number of copies and a
\* canvas one pixel wider than maxWidth
JobCalls ==
  { <<cv, n, 0, 0>> : cv \in JobCanvases, n \in JobCopies }
    \cup { <<Canvas(maxWidth + 1, MaxRows, <<Black, White>>), 1, 0, 0>> }

\* calls of printImage on a canvas twice as wide as maxWidth, without and
\* with targetWidth = maxWidth
ResizeCalls ==
  { <<Canvas(2 * maxWidth, MaxRows, <<Black, White>>), 1, tw, 0>> :
      tw \in {0, maxWidth} }

\* packet.data[0] !== 0 that is true for every packet
HelperAckAlways(packet) == TRUE

\* what a helper of PrinterClient returns: packet.data[0] !== 0
HelperAck(packet) == At(packet.data, 0) # 0

\* the statement order with setDimension ahead of startPagePrint
NextStepDimensionFirst(step, cv, n) ==
  CASE step = "setLabelDensity" -> "setLabelType"
    [] step = "setLabelType" -> "startPrint"
    [] step = "startPrint" -> "setDimension"
    [] step = "setDimension" -> "startPagePrint"
    [] step = "startPagePrint" ->
         IF n > 1 THEN "setQuantity"
         ELSE IF cv.height > 0 THEN "rows" ELSE "endPagePrint"
    [] step = "setQuantity" -> IF cv.height > 0 THEN "rows" ELSE "endPagePrint"
    [] step = "rows" -> "endPagePrint"
    [] step = "endPagePrint" -> "endPrint"

\* the statement of printImage that follows step
NextStep(step, cv, n) ==
  CASE step = "setLabelDensity" -> "setLabelType"
    [] step = "setLabelType" -> "startPrint"
    [] step = "startPrint" -> "startPagePrint"
    [] step = "startPagePrint" -> "setDimension"
    [] step = "setDimension" ->
         IF n > 1 THEN "setQuantity"
         ELSE IF cv.height > 0 THEN "rows" ELSE "endPagePrint"
    [] step = "setQuantity" -> IF cv.height > 0 THEN "rows" ELSE "endPagePrint"
    [] step = "rows" -> "endPagePrint"
    [] step = "endPagePrint" -> "endPrint"

ControlSteps ==
  {"setLabelDensity", "setLabelType", "startPrint", "startPagePrint",
   "setDimension", "setQuantity", "endPagePrint", "endPrint"}

\* the helper call that a control step of printImage makes
StepCmd(step, cv, n) ==
  CASE step = "setLabelDensity" -> ClientSetLabelDensity(DefaultDensity)
    [] step = "setLabelType" -> ClientSetLabelType(DefaultLabelType)
    [] step = "startPrint" -> ClientStartPrint
    [] step = "startPagePrint" -> ClientStartPagePrint
    [] step = "setDimension" -> ClientSetDimension(cv.height, cv.width)
    [] step = "setQuantity" -> ClientSetQuantity(n)
    [] step = "endPagePrint" -> ClientEndPagePrint
    [] step = "endPrint" -> ClientEndPrint

NotRejected == [step |-> "none", nsent |-> 0]

JobIdle ==
  /\ jpc = "idle"
  /\ imageCanvas = NoCanvas
  /\ target = <<0, 0>>
  /\ canvas = NoCanvas
  /\ copies = 0
  /\ rowFrames = <<>>
  /\ row = 0
  /\ sent = <<>>
  /\ acked = <<>>
  /\ rejected = NotRejected
  /\ endPolls = [writes |-> 0, zeros |-> 0]

\* the frames of sent that are requests of control steps
ControlSent == SelectSeq(sent, LAMBDA f : f[3] # IMAGE_ROW)

\* printImage is called: validateDimensions on the final size throws or
\* lets the job begin on printCanvas, the canvas itself or the resized one;
\* the pixels are fixed from here on, and with them the packets that
\* encodeImage(printCanvas) yields and the frames send makes of them
JobStart(cv, n, targetWidth, targetHeight) ==
  /\ impl = "client"
  /\ ipc = "start"
  /\ jpc = "idle"
  /\ tpc = "idle"
  /\ call = NoCall
  /\ imageCanvas' = cv
  /\ target' = <<targetWidth, targetHeight>>
  /\ copies' = n
  /\ LET finalWidth == IF targetWidth # 0 THEN targetWidth ELSE cv.width
         finalHeight == IF targetHeight # 0 THEN targetHeight ELSE cv.height
     IN  IF validateDimensions(finalWidth, finalHeight) # {}
         THEN /\ jpc' = "failed"
              /\ error' = ErrValidation
              /\ canvas' = NoCanvas
              /\ rowFrames' = <<>>
         ELSE /\ jpc' = "setLabelDensity"
              /\ UNCHANGED error
              /\ \E px \in Redrawn(cv) :
                   canvas' = IF targetWidth # 0 \/ targetHeight # 0
                             THEN resizeCanvas(cv, finalWidth, finalHeight, px)
                             ELSE cv
              /\ rowFrames' = [k \in 1..canvas'.height |->
                                 toBytes(ClientEncodeImage(canvas')[k].type,
                                         ClientEncodeImage(canvas')[k].data)]
  /\ UNCHANGED <<row, sent, acked, rejected, endPolls>>
  /\ UNCHANGED <<impl, via, tpc, call, expectedType, attempt, reads, writes,
                 result, buffer, seen>>
  /\ UNCHANGED <<codecVars, auxVars>>

\* a control step calls its helper: transceive writes the request; END_PRINT
\* requests past the MaxEndPolls-th are neither logged nor counted
JobCall ==
  /\ jpc \in ControlSteps
  /\ ClientSend(StepCmd(jpc, canvas, copies))
  /\ LET c == StepCmd(jpc, canvas, copies)
         logged == jpc # "endPrint" \/ endPolls.writes < MaxEndPolls
     IN  /\ sent' = IF logged THEN Append(sent, toBytes(c.req, c.data)) ELSE sent
         /\ endPolls' = IF jpc = "endPrint" /\ logged
                        THEN [endPolls EXCEPT !.writes = @ + 1] ELSE endPolls
  /\ UNCHANGED <<jpc, imageCanvas, target, canvas, copies, rowFrames, row, acked, rejected>>
  /\ UNCHANGED <<codecVars, auxVars>>

\* the helper returns packet.data[0] !== 0: printImage looks at it only in
\* the END_PRINT loop
JobReturn ==
  /\ jpc \in ControlSteps
  /\ tpc = "returned"
  /\ LET ok == HelperAck(result)
         logged == Len(acked) < Len(ControlSent)
     IN  /\ acked' = IF logged THEN Append(acked, result.type) ELSE acked
         /\ IF jpc = "endPrint"
            THEN /\ jpc' = IF ok THEN "done" ELSE "endPrint"
                 /\ endPolls' = IF ~ok /\ logged /\ endPolls.zeros < MaxEndPolls
                                THEN [endPolls EXCEPT !.zeros = @ + 1]
                                ELSE endPolls
                 /\ UNCHANGED rejected
            ELSE /\ jpc' = NextStep(jpc, canvas, copies)
                 /\ rejected' = IF ~ok /\ rejected = NotRejected
                                THEN [step |-> jpc, nsent |-> Len(sent)]
                                ELSE rejected
                 /\ UNCHANGED endPolls
  /\ tpc' = "idle"
  /\ UNCHANGED <<imageCanvas, target, canvas, copies, rowFrames, row, sent>>
  /\ UNCHANGED <<impl, via, call, expectedType, attempt, reads, writes,
                 result, error, buffer, seen>>
  /\ UNCHANGED <<codecVars, auxVars>>

\* a catch that logs the error of transceive and lets printImage go on
JobThrowSwallowed ==
  /\ jpc \in ControlSteps
  /\ tpc = "failed"
  /\ jpc' = IF jpc = "endPrint" THEN "done" ELSE NextStep(jpc, canvas, copies)
  /\ tpc' = "idle"
  /\ UNCHANGED <<imageCanvas, target, canvas, copies, rowFrames, row, sent, acked, rejected, endPolls>>
  /\ UNCHANGED <<impl, via, call, expectedType, attempt, reads, writes,
                 result, error, buffer, seen>>
  /\ UNCHANGED <<codecVars, auxVars>>

\* transceive throws: the catch of printImage rethrows
JobThrow ==
  /\ jpc \in ControlSteps
  /\ tpc = "failed"
  /\ jpc' = "failed"
  /\ tpc' = "idle"
  /\ UNCHANGED <<imageCanvas, target, canvas, copies, rowFrames, row, sent, acked, rejected, endPolls>>
  /\ UNCHANGED <<impl, via, call, expectedType, attempt, reads, writes,
                 result, error, buffer, seen>>
  /\ UNCHANGED <<codecVars, auxVars>>

\* a turn of the for-await loop that reads from the transport after its write
JobRowThenRead ==
  /\ jpc = "rows"
  /\ tpc = "idle"
  /\ row < canvas.height
  /\ sent' = Append(sent, rowFrames[row + 1])
  /\ writes' = <<rowFrames[row + 1]>>
  /\ \E wok \in BOOLEAN :
       IF wok
       THEN /\ row' = row + 1
            /\ jpc' = IF row + 1 = canvas.height
                      THEN NextStep("rows", canvas, copies) ELSE "rows"
            /\ UNCHANGED error
       ELSE /\ jpc' = "failed"
            /\ error' = ErrTransport
            /\ UNCHANGED row
  /\ UNCHANGED <<imageCanvas, target, canvas, copies, rowFrames, acked, rejected, endPolls>>
  /\ reads' = reads + 1
  /\ UNCHANGED <<impl, via, tpc, call, expectedType, attempt, result,
                 buffer, seen>>
  /\ UNCHANGED <<codecVars, auxVars>>

\* one turn of the for-await loop: the next packet of encodeImage is sent
JobRow ==
  /\ jpc = "rows"
  /\ tpc = "idle"
  /\ row < canvas.height
  /\ sent' = Append(sent, rowFrames[row + 1])
  /\ writes' = <<rowFrames[row + 1]>>
  /\ \E wok \in BOOLEAN :
       IF wok
       THEN /\ row' = row + 1
            /\ jpc' = IF row + 1 = canvas.height
                      THEN NextStep("rows", canvas, copies) ELSE "rows"
            /\ UNCHANGED error
       ELSE /\ jpc' = "failed"
            /\ error' = ErrTransport
            /\ UNCHANGED row
  /\ UNCHANGED <<imageCanvas, target, canvas, copies, rowFrames, acked, rejected, endPolls>>
  /\ UNCHANGED <<impl, via, tpc, call, expectedType, attempt, reads, result,
                 buffer, seen>>
  /\ UNCHANGED <<codecVars, auxVars>>

\* ------------------------------------------------------------------------
\* convertToMonochrome (niimbot.js), getMonoBits and encodeImage (packet.js)
\* ------------------------------------------------------------------------
\* 0.299 * r + 0.587 * g + 0.114 * b, in thousandths
Luma1000(r, g, b) == 299 * r + 587 * g + 114 * b

\* colours for which the double-precision sum of the three products comes
\* out just below its exact value, an integer: 127.99999999999999 for
\* (128, 128, 128)
LumaRoundsDown == { <<128, 128, 128>> }

\* 0.299 * r + 0.587 * g + 0.114 * b < t, as evaluated in double precision
LumaBelow(r, g, b, t) ==
  \/ Luma1000(r, g, b) < 1000 * t
  \/ Luma1000(r, g, b) = 1000 * t /\ <<r, g, b>> \in LumaRoundsDown

\* bit of pixel (x, y) in convertToMonochrome: grayscale < 128 ? 1 : 0
MonoInk(imageData, width, x, y) ==
  LET idx == (y * width + x) * 4
      r == DataAt(imageData, idx)
      g == DataAt(imageData, idx + 1)
      b == DataAt(imageData, idx + 2)
  IN  IF LumaBelow(r, g, b, FixedThreshold) THEN 1 ELSE 0

\* bitmap[y * bytesPerRow + (x >> 3)] |= 0x80 >> x % 8 for every ink pixel
convertToMonochrome(imageData, width, height) ==
  LET bytesPerRow == CeilDiv8(width)
  IN  [n \in 1..(bytesPerRow * height) |->
         LET y == (n - 1) \div bytesPerRow
             j == (n - 1) % bytesPerRow
             bitval(k) == IF 8 * j + k < width
                             /\ MonoInk(imageData, width, 8 * j + k, y) = 1
                          THEN 128 \div (2 ^ k) ELSE 0
         IN  bitval(0) + bitval(1) + bitval(2) + bitval(3)
               + bitval(4) + bitval(5) + bitval(6) + bitval(7)]

\* the threshold of getMonoBits with a step of 30 per density level
DensityThresholdStep30(d) == 256 - d * 30

\* const threshold = 256 - density * 40
DensityThreshold(d) == 256 - d * 40

\* bit of pixel (x, y) in getMonoBits: gray < threshold ? 1 : 0
DensityInk(cv, d, x, y) ==
  LET idx == (y * cv.width + x) * 4
      r == DataAt(cv, idx)
      g == DataAt(cv, idx + 1)
      b == DataAt(cv, idx + 2)
  IN  IF LumaBelow(r, g, b, DensityThreshold(d)) THEN 1 ELSE 0

\* bits[y * bytesPerRow + (x >> 3)] |= bit << (7 - (x & 7)) for every pixel
getMonoBits(cv, d) ==
  LET bytesPerRow == CeilDiv8(cv.width)
  IN  [bits |->
         [n \in 1..(bytesPerRow * cv.height) |->
            LET y == (n - 1) \div bytesPerRow
                j == (n - 1) % bytesPerRow
                bitval(k) == IF 8 * j + k < cv.width
                             THEN DensityInk(cv, d, 8 * j + k, y) * (2 ^ (7 - k))
                             ELSE 0
            IN  bitval(0) + bitval(1) + bitval(2) + bitval(3)
                  + bitval(4) + bitval(5) + bitval(6) + bitval(7)],
       width |-> cv.width]

\* sum of the elements of a sequence
RECURSIVE SumSeq(_)
SumSeq(q) == IF q = <<>> THEN 0 ELSE Head(q) + SumSeq(Tail(q))

\* createPacket of packet.js: 51 78, cmd, length, payload, the 16-bit sum of
\* all that precedes (high byte first), 0A
createPacket(cmd, payload) ==
  LET length == Len(payload)
      body == <<81, 120, cmd % ByteMod, length % ByteMod>> \o payload
      sum == SumSeq(body)
  IN  body \o <<HiByte(sum), LoByte(sum), 10>>

\* command codes of packet.js
CmdStartPrint == 1
CmdStartPage == 3
CmdSetDimension == 19
CmdSetDensity == 33
CmdImageRow == 133
CmdEndPage == 227
CmdEndPrint == 243

\* the row loop of encodeImage that starts at row 1
PacketRowsFromOne(bits, width) ==
  LET bytesPerRow == CeilDiv8(width)
      nrows == (Len(bits) + bytesPerRow - 1) \div bytesPerRow
  IN  [k \in 1..nrows |->
         LET offset == k * bytesPerRow
         IN  createPacket(CmdImageRow,
               <<HiByte(k), LoByte(k), 0, 0, 0, 1>>
                 \o Slice(bits, offset, offset + bytesPerRow))]

\* the row loop of encodeImage: for (row = 0; row < height; row++), height
\* being bits.length / bytesPerRow
PacketRows(bits, width) ==
  LET bytesPerRow == CeilDiv8(width)
      nrows == (Len(bits) + bytesPerRow - 1) \div bytesPerRow
  IN  [k \in 1..nrows |->
         LET offset == (k - 1) * bytesPerRow
         IN  createPacket(CmdImageRow,
               <<HiByte(k - 1), LoByte(k - 1), 0, 0, 0, 1>>
                 \o Slice(bits, offset, offset + bytesPerRow))]

\* encodeImage(bits, width, { density }): the packets of a whole job
encodeImage(bits, width, d) ==
  LET bytesPerRow == CeilDiv8(width)
      height == Len(bits) \div bytesPerRow
  IN  << createPacket(CmdSetDensity, <<d % ByteMod>>),
         createPacket(CmdStartPrint, <<1>>),
         createPacket(CmdStartPage, <<1>>),
         createPacket(CmdSetDimension,
           <<HiByte(height), LoByte(height), HiByte(width), LoByte(width)>>) >>
        \o PacketRows(bits, width)
        \o << createPacket(CmdEndPage, <<1>>),
              createPacket(CmdEndPrint, <<1>>) >>

\* --- the encoders applied to small canvases ---
MaxWidth == 9          \* widest enumerated canvas
MaxHeight == 2         \* tallest enumerated canvas
MaxPattern == 2        \* longest enumerated pixel pattern
TallHeight == 257      \* height of the canvas whose row index needs two bytes

Grey127 == <<127, 127, 127, 255>>
Green == <<0, 255, 0, 255>>
ClearBlack == <<0, 0, 0, 0>>
ClearWhite == <<255, 255, 255, 0>>
Grey200 == <<200, 200, 200, 255>>

Pixels == {Black, White, MidGrey, Grey127, Green, ClearBlack, ClearWhite, Grey200}

Patterns == UNION { [1..k -> Pixels] : k \in 1..MaxPattern }

Widths == {1, 8, MaxWidth}
Heights == {1, MaxHeight}

Densities == 1..5

\* a canvas of 16 x 8 pixels whose rows are all ink at x = 0, 2, 8 and 10:
\* the packed bytes of each row are A0 A0
A0Canvas ==
  Canvas(16, 8, <<Black, White, Black, White, White, White, White, White>>)

Canvases ==
  { Canvas(w, h, px) : w \in Widths, h \in Heights, px \in Patterns }
    \cup { Canvas(1, TallHeight, <<Black, White>>), A0Canvas }

NoMono == [bits |-> <<>>, width |-> 0]

ImageIdle ==
  /\ ipc = "start"
  /\ image = NoCanvas
  /\ dens = 0
  /\ rows = <<>>
  /\ bitmap = <<>>
  /\ monoBits = NoMono
  /\ linePackets = <<>>
  /\ pvia = "none"
  /\ pvi = 0

\* a canvas is drawn
LoadImage(cv) ==
  /\ ipc = "start"
  /\ jpc = "idle"
  /\ image' = cv
  /\ ipc' = "loaded"
  /\ UNCHANGED <<dens, rows, bitmap, monoBits, linePackets, pvia, pvi>>
  /\ UNCHANGED <<codecVars, txVars, jobVars, concVars, bleVars, rtVars, extVars>>

\* PrinterClient.encodeImage(canvas) is run to its end
RunClientEncode ==
  /\ ipc = "loaded"
  /\ rows' = ClientEncodeImage(image)
  /\ ipc' = "encoded"
  /\ UNCHANGED <<image, dens, bitmap, monoBits, linePackets, pvia, pvi>>
  /\ UNCHANGED <<codecVars, txVars, jobVars, concVars, bleVars, rtVars, extVars>>

\* convertToMonochrome(imageData, width, height)
RunConvert ==
  /\ ipc = "loaded"
  /\ bitmap' = convertToMonochrome(image, image.width, image.height)
  /\ ipc' = "converted"
  /\ UNCHANGED <<image, dens, rows, monoBits, linePackets, pvia, pvi>>
  /\ UNCHANGED <<codecVars, txVars, jobVars, concVars, bleVars, rtVars, extVars>>

\* getMonoBits(canvas, density)
RunGetMonoBits(d) ==
  /\ ipc = "loaded"
  /\ dens' = d
  /\ monoBits' = getMonoBits(image, d)
  /\ ipc' = "mono"
  /\ UNCHANGED <<image, rows, bitmap, linePackets, pvia, pvi>>
  /\ UNCHANGED <<codecVars, txVars, jobVars, concVars, bleVars, rtVars, extVars>>

\* encodeImage(bits, width, { density }) on the output of getMonoBits
RunEncodeImage ==
  /\ ipc = "mono"
  /\ linePackets' = encodeImage(monoBits.bits, monoBits.width, dens)
  /\ ipc' = "packets"
  /\ UNCHANGED <<image, dens, rows, bitmap, monoBits, pvia, pvi>>
  /\ UNCHANGED <<codecVars, txVars, jobVars, concVars, bleVars, rtVars, extVars>>

\* printViaUSB / printViaBLE: requestDevice has resolved with a transport
PrintViaOpen(t) ==
  /\ ipc = "packets"
  /\ pvia' = t
  /\ ipc' = "printing"
  /\ UNCHANGED <<image, dens, rows, bitmap, monoBits, linePackets, pvi>>
  /\ UNCHANGED <<codecVars, txVars, jobVars, concVars, bleVars, rtVars, extVars>>

\* one turn of for (const pkt of packets) await transport.write(pkt): the
\* packet is written as encodeImage built it; a write that fails leaves the
\* loop through finally
PrintViaWrite(wok) ==
  /\ ipc = "printing"
  /\ pvi < Len(linePackets)
  /\ IF wok
     THEN pvi' = pvi + 1 /\ UNCHANGED ipc
     ELSE ipc' = "closed" /\ UNCHANGED pvi
  /\ UNCHANGED <<image, dens, rows, bitmap, monoBits, linePackets, pvia>>
  /\ UNCHANGED <<codecVars, txVars, jobVars, concVars, bleVars, rtVars, extVars>>

\* the loop is over: finally closes the transport
PrintViaClose ==
  /\ ipc = "printing"
  /\ pvi = Len(linePackets)
  /\ ipc' = "closed"
  /\ UNCHANGED <<image, dens, rows, bitmap, monoBits, linePackets, pvia, pvi>>
  /\ UNCHANGED <<codecVars, txVars, jobVars, concVars, bleVars, rtVars, extVars>>

\* ------------------------------------------------------------------------
\* Two callers of transceive on one client
\* ------------------------------------------------------------------------
Callers == {1, 2}

\* the helper calls the two callers make: the click handlers of the demo
\* page (getInfo(DENSITY), endPrint), or two helpers of PrinterClient
ConcCalls(i) ==
  IF i = "web" THEN {WebGetInfo(1), WebEndPrint}
  ELSE {ClientStartPrint, ClientEndPrint}

\* what one read of the transport yields while the callers poll: nothing, or
\* one frame answering either command
ConcChunks(i) ==
  { <<>> } \cup { toBytes(c.req + c.off, <<1>>) : c \in ConcCalls(i) }

ConcIdle ==
  /\ cst = [p \in Callers |-> "idle"]
  /\ cexp = [p \in Callers |-> Undef]
  /\ catt = [p \in Callers |-> 0]
  /\ cbuf = <<>>
  /\ wlog = <<>>

\* caller p enters transceive: the request is written at once, whatever the
\* other caller is doing
ConcCall(p, c) ==
  /\ cimpl \in {"web", "client"}
  /\ cst[p] = "idle"
  /\ cexp' = [cexp EXCEPT ![p] = c.req + c.off]
  /\ wlog' = Append(wlog, <<p, toBytes(c.req, c.data)>>)
  /\ cst' = [cst EXCEPT ![p] = "polling"]
  /\ UNCHANGED <<cimpl, catt, cbuf>>
  /\ UNCHANGED <<codecVars, txVars, jobVars, imgVars, bleVars, rtVars, extVars>>

\* one polling round of caller p in PrinterClientWeb: receivePackets on the
\* shared buffer, then the scan for p's response
ConcRoundWeb(p, chunk) ==
  /\ cimpl = "web"
  /\ cst[p] = "polling"
  /\ catt[p] < WebPollRounds
  /\ LET rp == receivePackets(cbuf \o chunk)
         hit == FirstHit(rp.packets, cexp[p])
     IN  /\ cbuf' = rp.buffer
         /\ IF rp.err # "none"
            THEN /\ cst' = [cst EXCEPT ![p] = "failed"]
                 /\ UNCHANGED catt
            ELSE IF hit = 0
            THEN /\ catt' = [catt EXCEPT ![p] = @ + 1]
                 /\ UNCHANGED cst
            ELSE /\ cst' = [cst EXCEPT ![p] =
                              IF rp.packets[hit].type = cexp[p]
                              THEN "returned" ELSE "failed"]
                 /\ UNCHANGED catt
  /\ UNCHANGED <<cimpl, cexp, wlog>>
  /\ UNCHANGED <<codecVars, txVars, jobVars, imgVars, bleVars, rtVars, extVars>>

\* one attempt of caller p in PrinterClient: transport.read, then fromBytes
ConcAttemptClient(p, response) ==
  /\ cimpl = "client"
  /\ cst[p] = "polling"
  /\ catt[p] < ClientPollRounds
  /\ LET respPacket == fromBytes(response)
     IN  IF respPacket.ok /\ respPacket.type = cexp[p]
         THEN /\ cst' = [cst EXCEPT ![p] = "returned"]
              /\ UNCHANGED catt
         ELSE /\ catt' = [catt EXCEPT ![p] = @ + 1]
              /\ UNCHANGED cst
  /\ UNCHANGED <<cimpl, cexp, cbuf, wlog>>
  /\ UNCHANGED <<codecVars, txVars, jobVars, imgVars, bleVars, rtVars, extVars>>

\* the budget of caller p is used up: null (PrinterClientWeb) or an Error
\* (PrinterClient)
ConcGiveUp(p) ==
  /\ cst[p] = "polling"
  /\ \/ cimpl = "web" /\ catt[p] = WebPollRounds
        /\ cst' = [cst EXCEPT ![p] = "returned"]
     \/ cimpl = "client" /\ catt[p] = ClientPollRounds
        /\ cst' = [cst EXCEPT ![p] = "failed"]
  /\ UNCHANGED <<cimpl, cexp, catt, cbuf, wlog>>
  /\ UNCHANGED <<codecVars, txVars, jobVars, imgVars, bleVars, rtVars, extVars>>

\* ------------------------------------------------------------------------
\* BLE write paths
\* ------------------------------------------------------------------------
MaxWrite == 78         \* longest data handed to a BLE write

\* const MTU = 20 of WebBLETransport.write
MTU == 20

BlePaths == {"WebBLETransport", "WebBluetoothTransport", "PrinterClientWeb"}

\* data of n bytes, all different from their neighbours
BleData(n) == [i \in 1..n |-> (7 * i) % ByteMod]

BleIdle ==
  /\ bpc = "idle"
  /\ bdata = <<>>
  /\ bi = 0
  /\ issued = <<>>

\* write with a step of MTU + 1
BleChunkOver(data, i) == Slice(data, i, i + MTU + 1)

\* data.slice(i, i + MTU)
BleChunk(data, i) == Slice(data, i, i + MTU)

\* write(data) / sendPacket(packet, "ble") is called
BleWrite(n) ==
  /\ bpc = "idle"
  /\ bpath \in BlePaths
  /\ bdata' = BleData(n)
  /\ bi' = 0
  /\ issued' = <<>>
  /\ bpc' = "writing"
  /\ UNCHANGED bpath
  /\ UNCHANGED <<codecVars, txVars, jobVars, concVars, imgVars, rtVars, extVars>>

\* WebBLETransport.write: the loop test fails, write returns
BleLoopEnd ==
  /\ bpath = "WebBLETransport"
  /\ bpc = "writing"
  /\ ~(bi < Len(bdata))
  /\ bpc' = "done"
  /\ UNCHANGED <<bpath, bdata, bi, issued>>
  /\ UNCHANGED <<codecVars, txVars, jobVars, concVars, imgVars, rtVars, extVars>>

\* WebBLETransport.write: one turn of the loop issues writeValue(chunk)
BleIssue ==
  /\ bpath = "WebBLETransport"
  /\ bpc = "writing"
  /\ bi < Len(bdata)
  /\ issued' = Append(issued, BleChunk(bdata, bi))
  /\ bpc' = "awaiting"
  /\ UNCHANGED <<bpath, bdata, bi>>
  /\ UNCHANGED <<codecVars, txVars, jobVars, concVars, imgVars, rtVars, extVars>>

\* the awaited writeValue settles: the loop goes on, or write rejects
BleSettle(ok) ==
  /\ bpath = "WebBLETransport"
  /\ bpc = "awaiting"
  /\ bpc' = IF ok THEN "writing" ELSE "failed"
  /\ bi' = IF ok THEN bi + MTU ELSE bi
  /\ UNCHANGED <<bpath, bdata, issued>>
  /\ UNCHANGED <<codecVars, txVars, jobVars, concVars, imgVars, rtVars, extVars>>

\* WebBluetoothTransport.write and PrinterClientWeb._bleWrite: one
\* writeValue(data) with all of the data
BleWriteWhole(ok) ==
  /\ bpath \in {"WebBluetoothTransport", "PrinterClientWeb"}
  /\ bpc = "writing"
  /\ issued' = Append(issued, bdata)
  /\ bpc' = IF ok THEN "done" ELSE "failed"
  /\ UNCHANGED <<bpath, bdata, bi>>
  /\ UNCHANGED <<codecVars, txVars, jobVars, concVars, imgVars, rtVars, extVars>>

\* ------------------------------------------------------------------------
\* PrinterClientWeb.receivePackets on a byte stream that arrives in pieces
\* ------------------------------------------------------------------------
MaxGarbage == 2        \* longest run of stray bytes ahead of the frames

\* the frames of the stream: an END_PRINT response and an empty HEARTBEAT
\* response
RouterFrames == { toBytes(END_PRINT + 1, <<1>>), toBytes(HEARTBEAT + 1, <<>>) }

\* an END_PRINT response whose checksum byte is wrong
BadChecksumFrame == <<85, 85, END_PRINT + 1, 1, 1, 0, 170, 170>>

\* what precedes the frames: nothing, stray bytes (zeros and header bytes),
\* or a frame with a wrong checksum
Garbage ==
  UNION { [1..k -> {0, 85}] : k \in 0..MaxGarbage } \cup { BadChecksumFrame }

\* the streams: garbage, then one or two frames
Streams ==
  { [garbage |-> g, frames |-> fs] :
      g \in Garbage, fs \in SeqUpTo(RouterFrames, 2) \ {<<>>} }

\* the streams that end in a frame with a wrong checksum: one or two
\* frames, then that frame
BadTailStreams ==
  { [garbage |-> <<>>, frames |-> Append(fs, BadChecksumFrame)] :
      fs \in SeqUpTo(RouterFrames, 2) \ {<<>>} }

StreamBytes(st) == st.garbage \o Flatten(st.frames)

NoStream == [garbage |-> <<>>, frames |-> <<>>]

NoRouter ==
  /\ rpc = "off"
  /\ rvia = "none"
  /\ rstream = NoStream
  /\ rrecv = 0
  /\ rbuf = <<>>
  /\ rout = <<>>
  /\ rerr = "none"
  /\ rexp = Undef
  /\ ratt = 0

\* the bytes of the stream that have not arrived yet
Pending == SubSeq(StreamBytes(rstream), rrecv + 1, Len(StreamBytes(rstream)))

\* receivePackets(via) is called
RouterCall ==
  /\ rpc = "idle"
  /\ rpc' = "called"
  /\ rvia \in {"usb", "ble"}
  /\ UNCHANGED <<rvia, rstream, rrecv, rbuf, rout, rerr, rexp, ratt>>
  /\ UNCHANGED <<codecVars, txVars, jobVars, concVars, imgVars, bleVars, extVars>>

\* receivePackets that leaves this._buffer as it found it
RouterParseKeep(buf) ==
  LET rp == receivePackets(buf)
  IN  /\ rbuf' = buf
      /\ rout' = rout \o rp.packets
      /\ rerr' = rp.err
      /\ rpc' = "idle"

\* the rest of receivePackets once the buffer holds buf: the while loop, then
\* the packets are returned or the Error of fromBytes is thrown
RouterParse(buf) ==
  LET rp == receivePackets(buf)
  IN  /\ rbuf' = rp.buffer
      /\ rout' = rout \o rp.packets
      /\ rerr' = rp.err
      /\ rpc' = "idle"

\* receivePackets("usb"): the bulk-in transfer brings the next k bytes
RouterReceiveUsb(k) ==
  /\ rpc = "called"
  /\ rvia = "usb"
  /\ k <= Len(Pending)
  /\ rrecv' = rrecv + k
  /\ RouterParse(rbuf \o SubSeq(Pending, 1, k))
  /\ UNCHANGED <<rvia, rstream, rexp, ratt>>
  /\ UNCHANGED <<codecVars, txVars, jobVars, concVars, imgVars, bleVars, extVars>>

\* receivePackets("ble"): no transfer, the buffer is parsed as it is
RouterReceiveBle ==
  /\ rpc = "called"
  /\ rvia = "ble"
  /\ RouterParse(rbuf)
  /\ UNCHANGED <<rvia, rstream, rrecv, rexp, ratt>>
  /\ UNCHANGED <<codecVars, txVars, jobVars, concVars, imgVars, bleVars, extVars>>

\* a characteristicvaluechanged event with the next k bytes: the handler
\* appends them to the buffer
RouterNotify(k) ==
  /\ rvia = "ble"
  /\ k >= 1
  /\ k <= Len(Pending)
  /\ rrecv' = rrecv + k
  /\ rbuf' = rbuf \o SubSeq(Pending, 1, k)
  /\ UNCHANGED <<rpc, rvia, rstream, rout, rerr, rexp, ratt>>
  /\ UNCHANGED <<codecVars, txVars, jobVars, concVars, imgVars, bleVars, extVars>>

\* PrinterClient.transceive has sent its request and awaits a response of
\* type respCode
ReadLoopStart(respCode) ==
  /\ rvia = "transport"
  /\ rpc = "idle"
  /\ rexp' = respCode
  /\ rpc' = "polling"
  /\ UNCHANGED <<rvia, rstream, rrecv, rbuf, rout, rerr, ratt>>
  /\ UNCHANGED <<codecVars, txVars, jobVars, concVars, imgVars, bleVars, extVars>>

\* one attempt of PrinterClient.transceive: transport.read brings the next k
\* bytes, fromBytes is applied to all of them; a packet of another type and
\* an Error of fromBytes both use the attempt up, and what was read is kept
\* nowhere
ReadLoopAttempt(k) ==
  /\ rvia = "transport"
  /\ rpc = "polling"
  /\ ratt < ClientPollRounds
  /\ k <= Len(Pending)
  /\ rrecv' = rrecv + k
  /\ LET respPacket == fromBytes(SubSeq(Pending, 1, k))
     IN  IF respPacket.ok /\ respPacket.type = rexp
         THEN /\ rout' = <<respPacket>>
              /\ rpc' = "returned"
              /\ UNCHANGED <<ratt, rerr>>
         ELSE /\ ratt' = ratt + 1
              /\ rerr' = IF respPacket.ok THEN "none" ELSE respPacket.err
              /\ UNCHANGED <<rout, rpc>>
  /\ UNCHANGED <<rvia, rstream, rbuf, rexp>>
  /\ UNCHANGED <<codecVars, txVars, jobVars, concVars, imgVars, bleVars, extVars>>

\* the loop of PrinterClient.transceive is over: No response received
ReadLoopGiveUp ==
  /\ rvia = "transport"
  /\ rpc = "polling"
  /\ ratt = ClientPollRounds
  /\ rpc' = "failed"
  /\ rerr' = ErrNoResponse
  /\ UNCHANGED <<rvia, rstream, rrecv, rbuf, rout, rexp, ratt>>
  /\ UNCHANGED <<codecVars, txVars, jobVars, concVars, imgVars, bleVars, extVars>>

\* ------------------------------------------------------------------------
\* USB connect: PrinterClientWeb.connectUSB (printerClient.js),
\* WebUSBTransport.connect (transport-usb.js) and WebUSBTransport.connect
\* (niimbot-web.js)
\* ------------------------------------------------------------------------
MaxInterfaces == 2     \* interfaces of the configuration

\* the endpoints an interface can have: <<direction, type>> of each, in the
\* order of alternate.endpoints
InterfaceKinds ==
  { <<>>,
    << <<"out", "bulk">> >>,
    << <<"in", "bulk">> >>,
    << <<"out", "bulk">>, <<"in", "bulk">> >>,
    << <<"in", "bulk">>, <<"out", "bulk">> >>,
    << <<"out", "interrupt">>, <<"in", "interrupt">> >>,
    << <<"out", "bulk">>, <<"in", "interrupt">> >>,
    << <<"in", "interrupt">>, <<"in", "bulk">> >> }

\* the i-th interface of a configuration: interface numbers count from 0,
\* and no two endpoints of the device share a number
Interface(kind, i) ==
  [interfaceNumber |-> i - 1,
   endpoints |-> [j \in 1..Len(kind) |->
                    [direction |-> kind[j][1], type |-> kind[j][2],
                     endpointNumber |-> 2 * (i - 1) + j]]]

\* device.configuration.interfaces of the devices connected to
Devices ==
  { [i \in 1..Len(kinds) |-> Interface(kinds[i], i)] :
      kinds \in SeqUpTo(InterfaceKinds, MaxInterfaces) \ {<<>>} }

\* null of interfaceNumber, endpointOut, endpointIn
NullNum == -1

NoFound == [ifaceNum |-> NullNum, out |-> NullNum, in |-> NullNum]

NoUsb ==
  /\ upc = "off"
  /\ uimpl = "none"
  /\ udev = <<>>
  /\ interfaceNumber = NullNum
  /\ endpointOut = NullNum
  /\ endpointIn = NullNum
  /\ claimed = {}

\* connectUSB: the inner loop over iface.alternate.endpoints from the j-th
RECURSIVE ScanEndpoints(_, _, _)
ScanEndpoints(iface, j, st) ==
  IF j > Len(iface.endpoints) THEN st
  ELSE LET alt == iface.endpoints[j]
       IN  ScanEndpoints(iface, j + 1,
             IF alt.type = "bulk"
             THEN [ifaceNum |-> iface.interfaceNumber,
                   out |-> IF alt.direction = "out" THEN alt.endpointNumber ELSE st.out,
                   in |-> IF alt.direction = "in" THEN alt.endpointNumber ELSE st.in]
             ELSE st)

\* connectUSB: the loop over configuration.interfaces from the i-th, left at
\* the first interface after which ifaceNum is set
RECURSIVE ScanInterfaces(_, _, _)
ScanInterfaces(interfaces, i, st) ==
  IF i > Len(interfaces) THEN st
  ELSE LET st2 == ScanEndpoints(interfaces[i], 1, st)
       IN  IF st2.ifaceNum # NullNum THEN st2
           ELSE ScanInterfaces(interfaces, i + 1, st2)

\* the transfer types an endpoint may have
EndpointTypes == {"bulk", "interrupt"}

\* endpoints.find(e => ...): the number of the first endpoint of the given
\* direction whose type is one of types, or Undef
Find(endpoints, direction, types) ==
  LET hits == {j \in 1..Len(endpoints) :
                 endpoints[j].direction = direction /\ endpoints[j].type \in types}
  IN  IF hits = {} THEN Undef
      ELSE endpoints[CHOOSE j \in hits : \A k \in hits : j <= k].endpointNumber

\* connect of transport-usb.js: the loop over config.interfaces from the
\* i-th; every interface has one alternate setting
RECURSIVE FindPair(_, _, _)
FindPair(interfaces, i, st) ==
  IF i > Len(interfaces) THEN st
  ELSE LET outEp == Find(interfaces[i].endpoints, "out", EndpointTypes)
           inEp == Find(interfaces[i].endpoints, "in", EndpointTypes)
           st2 == IF outEp # Undef /\ inEp # Undef
                  THEN [ifaceNum |-> interfaces[i].interfaceNumber,
                        out |-> outEp, in |-> inEp]
                  ELSE st
       IN  IF st2.ifaceNum # NullNum THEN st2
           ELSE FindPair(interfaces, i + 1, st2)

\* device.open() and selectConfiguration have resolved
UsbOpen ==
  /\ upc = "idle"
  /\ upc' = "opened"
  /\ UNCHANGED <<uimpl, udev, interfaceNumber, endpointOut, endpointIn, claimed>>
  /\ UNCHANGED <<codecVars, txVars, jobVars, concVars, imgVars, bleVars, rtVars, infoVars, exportVars, pairVars, pageVars, lifeVars>>

\* connectUSB of PrinterClientWeb from the loop to the call of
\* claimInterface, or to its throw
ConnectUSBFind ==
  /\ uimpl = "PrinterClientWeb"
  /\ upc = "opened"
  /\ LET st == ScanInterfaces(udev, 1, NoFound)
     IN  /\ interfaceNumber' = st.ifaceNum
         /\ endpointOut' = st.out
         /\ endpointIn' = st.in
         /\ upc' = IF st.ifaceNum = NullNum THEN "failed" ELSE "claiming"
  /\ UNCHANGED <<uimpl, udev, claimed>>
  /\ UNCHANGED <<codecVars, txVars, jobVars, concVars, imgVars, bleVars, rtVars, infoVars, exportVars, pairVars, pageVars, lifeVars>>

\* connect of transport-usb.js from the loop to the call of claimInterface,
\* or to its throw
TransportConnectFind ==
  /\ uimpl = "transport-usb"
  /\ upc = "opened"
  /\ LET st == FindPair(udev, 1, NoFound)
     IN  /\ interfaceNumber' = st.ifaceNum
         /\ endpointOut' = st.out
         /\ endpointIn' = st.in
         /\ upc' = IF st.ifaceNum = NullNum THEN "failed" ELSE "claiming"
  /\ UNCHANGED <<uimpl, udev, claimed>>
  /\ UNCHANGED <<codecVars, txVars, jobVars, concVars, imgVars, bleVars, rtVars, infoVars, exportVars, pairVars, pageVars, lifeVars>>

\* claimInterface of the number found has resolved
UsbClaim ==
  /\ uimpl \in {"PrinterClientWeb", "transport-usb"}
  /\ upc = "claiming"
  /\ claimed' = claimed \cup {interfaceNumber}
  /\ upc' = "connected"
  /\ UNCHANGED <<uimpl, udev, interfaceNumber, endpointOut, endpointIn>>
  /\ UNCHANGED <<codecVars, txVars, jobVars, concVars, imgVars, bleVars, rtVars, infoVars, exportVars, pairVars, pageVars, lifeVars>>

\* connect of niimbot-web.js after open: claimInterface(0), then the bulk
\* out endpoint of interfaces[0] is looked up; read looks up the bulk in
\* endpoint of interfaces[0] at every call
NiimbotWebClaim ==
  /\ uimpl = "niimbot-web"
  /\ upc = "opened"
  /\ claimed' = claimed \cup {0}
  /\ interfaceNumber' = 0
  /\ LET endpoint == Find(udev[1].endpoints, "out", {"bulk"})
         inEndpoint == Find(udev[1].endpoints, "in", {"bulk"})
     IN  /\ endpointOut' = IF endpoint = Undef THEN NullNum ELSE endpoint
         /\ endpointIn' = IF inEndpoint = Undef THEN NullNum ELSE inEndpoint
         /\ upc' = IF endpoint = Undef THEN "failed" ELSE "connected"
  /\ UNCHANGED <<uimpl, udev>>
  /\ UNCHANGED <<codecVars, txVars, jobVars, concVars, imgVars, bleVars, rtVars, infoVars, exportVars, pairVars, pageVars, lifeVars>>

\* ------------------------------------------------------------------------
\* getInfo of PrinterClientWeb and of PrinterClient: the conversion of the
\* response payload
\* ------------------------------------------------------------------------
DEVICESERIAL == 11
SOFTVERSION == 9
HARDVERSION == 12

\* x << k on an int32 x, for 0 < k < 32: the low 32 - k bits of x move up
\* and bit 31 of the result is its sign
ShiftLeft(x, k) ==
  LET m == x % (2 ^ (32 - k))
  IN  IF m >= 2 ^ (31 - k) THEN (m - 2 ^ (32 - k)) * (2 ^ k) ELSE m * (2 ^ k)

\* a | b on two bytes
RECURSIVE BitOr(_, _)
BitOr(a, b) ==
  IF a = 0 THEN b
  ELSE IF b = 0 THEN a
  ELSE (IF a % 2 = 1 \/ b % 2 = 1 THEN 1 ELSE 0) + 2 * BitOr(a \div 2, b \div 2)

\* x | b on an int32 x and a byte b: only the low byte of x changes
OrByte(x, b) == (x - (x % 256)) + BitOr(x % 256, b)

\* for (const b of data) value = (value << 8) | b, from the j-th byte
RECURSIVE ShiftOrFrom(_, _, _)
ShiftOrFrom(data, j, value) ==
  IF j > Len(data) THEN value
  ELSE ShiftOrFrom(data, j + 1, OrByte(ShiftLeft(value, 8), data[j]))

\* byte << count: the count is taken modulo 32
ShiftByte(byte, count) ==
  IF count % 32 = 0 THEN byte ELSE ShiftLeft(byte, count % 32)

\* reduce((acc, byte, i) => acc + (byte << (8 * (length - 1 - i))), 0), from
\* the j-th byte
RECURSIVE ReduceFrom(_, _, _)
ReduceFrom(data, j, acc) ==
  IF j > Len(data) THEN acc
  ELSE ReduceFrom(data, j + 1,
                  acc + ShiftByte(data[j], 8 * (Len(data) - j)))

\* what getInfo returns: null, the hex digits of the serial, the integer or
\* the integer divided by 100
InfoNull == [kind |-> "null", value |-> 0, digits |-> <<>>]
InfoInt(v) == [kind |-> "int", value |-> v, digits |-> <<>>]
InfoPerCent(v) == [kind |-> "value / 100", value |-> v, digits |-> <<>>]
InfoHex(data) ==
  [kind |-> "hex", value |-> 0,
   digits |-> [j \in 1..(2 * Len(data)) |->
                 IF j % 2 = 1 THEN data[(j + 1) \div 2] \div 16
                 ELSE data[j \div 2] % 16]]

\* getInfo of PrinterClientWeb after transceive
WebInfoValue(key, r) ==
  IF r = Null THEN InfoNull
  ELSE IF key = DEVICESERIAL THEN InfoHex(r.data)
  ELSE IF key = SOFTVERSION \/ key = HARDVERSION
       THEN InfoPerCent(ShiftOrFrom(r.data, 1, 0))
  ELSE InfoInt(ShiftOrFrom(r.data, 1, 0))

\* getInfo of PrinterClient after transceive
ClientInfoValue(key, r) ==
  IF key = DEVICESERIAL THEN InfoHex(r.data)
  ELSE IF key = SOFTVERSION \/ key = HARDVERSION
       THEN InfoPerCent(ReduceFrom(r.data, 1, 0))
  ELSE InfoInt(ReduceFrom(r.data, 1, 0))

\* payload lengths of the responses converted
InfoLens == 0..4

InfoBytes == {0, 1, 127, 128, 255}

InfoData == UNION { [1..n -> InfoBytes] : n \in InfoLens }

\* DENSITY, SOFTVERSION and DEVICESERIAL
InfoKeysAsked == {1, SOFTVERSION, DEVICESERIAL}

NoInfo ==
  /\ gpc = "off"
  /\ gimpl = "none"
  /\ gkey = 0
  /\ resp = Null
  /\ info = InfoNull

\* transceive of getInfo returns a packet, or null in PrinterClientWeb
GetInfoResponse(r) ==
  /\ gpc = "transceive"
  /\ gimpl = "web" \/ r # Null
  /\ resp' = r
  /\ gpc' = "response"
  /\ UNCHANGED <<gimpl, gkey, info>>
  /\ UNCHANGED <<codecVars, txVars, jobVars, concVars, imgVars, bleVars, rtVars, usbVars, exportVars, pairVars, pageVars, lifeVars>>

\* getInfo returns
GetInfoReturn ==
  /\ gpc = "response"
  /\ info' = IF gimpl = "web" THEN WebInfoValue(gkey, resp)
             ELSE ClientInfoValue(gkey, resp)
  /\ gpc' = "returned"
  /\ UNCHANGED <<gimpl, gkey, resp>>
  /\ UNCHANGED <<codecVars, txVars, jobVars, concVars, imgVars, bleVars, rtVars, usbVars, exportVars, pairVars, pageVars, lifeVars>>

\* ------------------------------------------------------------------------
\* constructNiimbotPacket and calculateChecksum (niimbot.js)
\* ------------------------------------------------------------------------
\* A byte array is written as its runs: <<b, n>> stands for n bytes b in a
\* row, so that the bitmap of a whole label fits in a state.
MaxRuns == 2           \* runs of a short payload

\* array.length
RECURSIVE RunLength(_)
RunLength(runs) ==
  IF runs = <<>> THEN 0 ELSE runs[1][2] + RunLength(Tail(runs))

\* array[i], 0-based
RECURSIVE RunAt(_, _)
RunAt(runs, i) ==
  IF runs = <<>> THEN Undef
  ELSE IF i < runs[1][2] THEN runs[1][1]
  ELSE RunAt(Tail(runs), i - runs[1][2])

\* for (const byte of payload) sum += byte
RECURSIVE SumRuns(_, _)
SumRuns(sum, runs) ==
  IF runs = <<>> THEN sum
  ELSE SumRuns(sum + runs[1][1] * runs[1][2], Tail(runs))

calculateChecksum(command, lengthBytes, bytes) ==
  SumRuns(command + lengthBytes[1] + lengthBytes[2], bytes) % 256

constructNiimbotPacket(bytes) ==
  LET header == << <<85, 1>>, <<85, 1>> >>
      command == 162
      length == RunLength(bytes)
      lengthBytes == <<(length \div 256) % 256, length % 256>>
      checksum == calculateChecksum(command, lengthBytes, bytes)
      footer == << <<170, 1>>, <<170, 1>> >>
  IN  header \o << <<command, 1>> >>
        \o << <<lengthBytes[1], 1>>, <<lengthBytes[2], 1>> >>
        \o bytes \o << <<checksum, 1>> >> \o footer

\* bytesPerRow * height of the largest label of the b21 configuration
B21BitmapBytes == CeilDiv8(384) * 4000

\* the payloads: short bitmaps, and uniform bitmaps around 65536 bytes and
\* of the largest b21 label
ExportPayloads ==
  SeqUpTo({0, 1, 255} \X (1..3), MaxRuns)
    \cup { << <<b, n>> >> : b \in {0, 255},
                            n \in {Uint16Mod - 1, Uint16Mod, Uint16Mod + 1,
                                   B21BitmapBytes} }

NoExport ==
  /\ xpc = "off"
  /\ bitmapBytes = <<>>
  /\ niimbotPacket = <<>>

\* createNiimbotPacketFromPNG has its bitmap
ExportBitmap(bytes) ==
  /\ xpc = "start"
  /\ bitmapBytes' = bytes
  /\ xpc' = "bitmap"
  /\ UNCHANGED niimbotPacket
  /\ UNCHANGED <<codecVars, txVars, jobVars, concVars, imgVars, bleVars, rtVars, usbVars, infoVars, pairVars, pageVars, lifeVars>>

\* constructNiimbotPacket(bitmap) returns
ExportPacket ==
  /\ xpc = "bitmap"
  /\ niimbotPacket' = constructNiimbotPacket(bitmapBytes)
  /\ xpc' = "packet"
  /\ UNCHANGED bitmapBytes
  /\ UNCHANGED <<codecVars, txVars, jobVars, concVars, imgVars, bleVars, rtVars, usbVars, infoVars, pairVars, pageVars, lifeVars>>

\* ------------------------------------------------------------------------
\* transceive called again after a call whose response came late
\* ------------------------------------------------------------------------
MaxPairCalls == 2      \* calls of transceive, all with the same request

\* the response to the n-th request: the frames of all of them are equal,
\* req tells them apart
Reply(n) == [req |-> n, bytes |-> toBytes(END_PRINT + 1, <<1>>)]

\* the bytes of a sequence of replies
ReplyBytes(replies) == Flatten([i \in 1..Len(replies) |-> replies[i].bytes])

NoPair ==
  /\ pairImpl = "none"
  /\ pairVia = "none"
  /\ pairState = "off"
  /\ callNo = 0
  /\ pairAttempt = 0
  /\ pairBuffer = <<>>
  /\ wireReplies = <<>>
  /\ owed = {}
  /\ returnedFor = 0

\* transceive(END_PRINT, [1]) is called and has written its request
PairCall ==
  /\ pairState = "idle"
  /\ callNo < MaxPairCalls
  /\ callNo' = callNo + 1
  /\ owed' = owed \cup {callNo + 1}
  /\ pairAttempt' = 0
  /\ returnedFor' = 0
  /\ pairState' = "polling"
  /\ UNCHANGED <<pairImpl, pairVia, pairBuffer, wireReplies>>
  /\ UNCHANGED <<codecVars, txVars, jobVars, concVars, imgVars, bleVars, rtVars, usbVars, infoVars, exportVars, pageVars, lifeVars>>

\* the printer answers a request it has received
PrinterReply(n) ==
  /\ n \in owed
  /\ owed' = owed \ {n}
  /\ wireReplies' = Append(wireReplies, Reply(n))
  /\ UNCHANGED <<pairImpl, pairVia, pairState, callNo, pairAttempt, pairBuffer, returnedFor>>
  /\ UNCHANGED <<codecVars, txVars, jobVars, concVars, imgVars, bleVars, rtVars, usbVars, infoVars, exportVars, pageVars, lifeVars>>

\* the characteristicvaluechanged listener of connectBLE appends a reply
PairNotify ==
  /\ pairImpl = "web"
  /\ pairVia = "ble"
  /\ wireReplies # <<>>
  /\ pairBuffer' = Append(pairBuffer, Head(wireReplies))
  /\ wireReplies' = Tail(wireReplies)
  /\ UNCHANGED <<pairImpl, pairVia, pairState, callNo, pairAttempt, owed, returnedFor>>
  /\ UNCHANGED <<codecVars, txVars, jobVars, concVars, imgVars, bleVars, rtVars, usbVars, infoVars, exportVars, pageVars, lifeVars>>

\* one round of PrinterClientWeb.transceive: receivePackets (over USB after
\* a transferIn of the k replies waiting), then the scan for expectedType
PairRoundWeb(k) ==
  /\ pairImpl = "web"
  /\ pairState = "polling"
  /\ pairAttempt < WebPollRounds
  /\ k <= Len(wireReplies)
  /\ pairVia = "ble" => k = 0
  /\ wireReplies' = SubSeq(wireReplies, k + 1, Len(wireReplies))
  /\ LET buf == pairBuffer \o SubSeq(wireReplies, 1, k)
         rp == receivePackets(ReplyBytes(buf))
         hit == FirstHit(rp.packets, END_PRINT + 1)
     IN  /\ pairBuffer' = SubSeq(buf, Len(rp.packets) + 1, Len(buf))
         /\ IF hit = 0
            THEN /\ pairAttempt' = pairAttempt + 1
                 /\ UNCHANGED <<pairState, returnedFor>>
            ELSE /\ pairState' = "returned"
                 /\ returnedFor' = buf[hit].req
                 /\ UNCHANGED pairAttempt
  /\ UNCHANGED <<pairImpl, pairVia, callNo, owed>>
  /\ UNCHANGED <<codecVars, txVars, jobVars, concVars, imgVars, bleVars, rtVars, usbVars, infoVars, exportVars, pageVars, lifeVars>>

\* one attempt of PrinterClient.transceive: transport.read gives the next
\* reply, or throws when there is none
PairAttemptClient ==
  /\ pairImpl = "client"
  /\ pairState = "polling"
  /\ pairAttempt < ClientPollRounds
  /\ IF wireReplies = <<>>
     THEN /\ pairAttempt' = pairAttempt + 1
          /\ UNCHANGED <<pairState, returnedFor, wireReplies>>
     ELSE LET respPacket == fromBytes(Head(wireReplies).bytes)
          IN  /\ wireReplies' = Tail(wireReplies)
              /\ IF respPacket.ok /\ respPacket.type = END_PRINT + 1
                 THEN /\ pairState' = "returned"
                      /\ returnedFor' = Head(wireReplies).req
                      /\ UNCHANGED pairAttempt
                 ELSE /\ pairAttempt' = pairAttempt + 1
                      /\ UNCHANGED <<pairState, returnedFor>>
  /\ UNCHANGED <<pairImpl, pairVia, callNo, pairBuffer, owed>>
  /\ UNCHANGED <<codecVars, txVars, jobVars, concVars, imgVars, bleVars, rtVars, usbVars, infoVars, exportVars, pageVars, lifeVars>>

\* the attempts are used up: null (PrinterClientWeb) or an Error
\* (PrinterClient)
PairGiveUp ==
  /\ pairState = "polling"
  /\ \/ pairImpl = "web" /\ pairAttempt = WebPollRounds /\ pairState' = "null"
     \/ pairImpl = "client" /\ pairAttempt = ClientPollRounds /\ pairState' = "failed"
  /\ UNCHANGED <<pairImpl, pairVia, callNo, pairAttempt, pairBuffer, wireReplies, owed, returnedFor>>
  /\ UNCHANGED <<codecVars, txVars, jobVars, concVars, imgVars, bleVars, rtVars, usbVars, infoVars, exportVars, pageVars, lifeVars>>

\* the caller has the outcome and may call again
PairDone ==
  /\ pairState \in {"returned", "null", "failed"}
  /\ pairState' = "idle"
  /\ UNCHANGED <<pairImpl, pairVia, callNo, pairAttempt, pairBuffer, wireReplies, owed, returnedFor>>
  /\ UNCHANGED <<codecVars, txVars, jobVars, concVars, imgVars, bleVars, rtVars, usbVars, infoVars, exportVars, pageVars, lifeVars>>

\* ------------------------------------------------------------------------
\* printDesign of the page (+page.svelte) and of its other variant
\* (transport-ble.js)
\* ------------------------------------------------------------------------
MaxClicks == 3         \* clicks on Print

\* the guard of printDesign without isPrinting
MayPrintUnguarded == printerClient # "null"

\* printDesign goes on: !(!printerClient || !fabricCanvas || isPrinting);
\* fabricCanvas is set when the page is mounted
MayPrint == printerClient # "null" /\ ~isPrinting

NoPage ==
  /\ variant = "none"
  /\ printerClient = "null"
  /\ isPrinting = FALSE
  /\ status = "Ready"
  /\ loads = 0
  /\ jobs = 0
  /\ clicks = 0
  /\ ignored = 0

\* connectPrinter has made its PrinterClient
PageConnect ==
  /\ printerClient = "null"
  /\ printerClient' = "PrinterClient"
  /\ status' = "Connected"
  /\ UNCHANGED <<variant, isPrinting, loads, jobs, clicks, ignored>>
  /\ UNCHANGED <<codecVars, txVars, jobVars, concVars, imgVars, bleVars, rtVars, usbVars, infoVars, exportVars, pairVars, lifeVars>>

\* disconnectPrinter
PageDisconnect ==
  /\ printerClient # "null"
  /\ printerClient' = "null"
  /\ status' = "Disconnected"
  /\ UNCHANGED <<variant, isPrinting, loads, jobs, clicks, ignored>>
  /\ UNCHANGED <<codecVars, txVars, jobVars, concVars, imgVars, bleVars, rtVars, usbVars, infoVars, exportVars, pairVars, lifeVars>>

\* a click on Print runs printDesign up to its return: it returns at once,
\* or sets isPrinting and either starts the image load (img.src = dataUrl)
\* or, when toDataURL throws, lands in the outer catch
PrintDesign(thrown) ==
  /\ clicks < MaxClicks
  /\ clicks' = clicks + 1
  /\ IF ~MayPrint
     THEN /\ ignored' = ignored + 1
          /\ UNCHANGED <<isPrinting, status, loads>>
     ELSE /\ UNCHANGED ignored
          /\ IF thrown
             THEN /\ isPrinting' = FALSE
                  /\ status' = "Print failed"
                  /\ UNCHANGED loads
             ELSE /\ isPrinting' = TRUE
                  /\ status' = "Preparing"
                  /\ loads' = loads + 1
  /\ UNCHANGED <<variant, printerClient, jobs>>
  /\ UNCHANGED <<codecVars, txVars, jobVars, concVars, imgVars, bleVars, rtVars, usbVars, infoVars, exportVars, pairVars, lifeVars>>

\* img.onload up to its first await: printImage is called, or the call
\* throws because printerClient is null by now; the handler of +page.svelte
\* catches that and its finally resets isPrinting, the other one has no try
ImgOnload ==
  /\ loads > 0
  /\ loads' = loads - 1
  /\ IF printerClient # "null"
     THEN /\ jobs' = jobs + 1
          /\ status' = "Sending"
          /\ UNCHANGED isPrinting
     ELSE /\ UNCHANGED jobs
          /\ IF variant = "+page.svelte"
             THEN isPrinting' = FALSE /\ status' = "Print failed"
             ELSE UNCHANGED <<isPrinting, status>>
  /\ UNCHANGED <<variant, printerClient, clicks, ignored>>
  /\ UNCHANGED <<codecVars, txVars, jobVars, concVars, imgVars, bleVars, rtVars, usbVars, infoVars, exportVars, pairVars, lifeVars>>

\* img.onerror
ImgOnerror ==
  /\ loads > 0
  /\ loads' = loads - 1
  /\ status' = "Print failed"
  /\ isPrinting' = FALSE
  /\ UNCHANGED <<variant, printerClient, jobs, clicks, ignored>>
  /\ UNCHANGED <<codecVars, txVars, jobVars, concVars, imgVars, bleVars, rtVars, usbVars, infoVars, exportVars, pairVars, lifeVars>>

\* printImage resolves: the rest of img.onload
PrintResolved ==
  /\ jobs > 0
  /\ jobs' = jobs - 1
  /\ status' = "Print completed successfully"
  /\ isPrinting' = FALSE
  /\ UNCHANGED <<variant, printerClient, loads, clicks, ignored>>
  /\ UNCHANGED <<codecVars, txVars, jobVars, concVars, imgVars, bleVars, rtVars, usbVars, infoVars, exportVars, pairVars, lifeVars>>

\* printImage rejects: catch and finally of the handler of +page.svelte; in
\* the other variant the rejection leaves img.onload and nothing is reset
PrintRejected ==
  /\ jobs > 0
  /\ jobs' = jobs - 1
  /\ IF variant = "+page.svelte"
     THEN isPrinting' = FALSE /\ status' = "Print failed"
     ELSE UNCHANGED <<isPrinting, status>>
  /\ UNCHANGED <<variant, printerClient, loads, clicks, ignored>>
  /\ UNCHANGED <<codecVars, txVars, jobVars, concVars, imgVars, bleVars, rtVars, usbVars, infoVars, exportVars, pairVars, lifeVars>>

\* ------------------------------------------------------------------------
\* The transport of printViaUSB and printViaBLE from requestDevice to the
\* settling of the call
\* ------------------------------------------------------------------------
MaxJobPackets == 3     \* packets.length

ErrRequest == "requestDevice failed"

ErrWrite == "write failed"

ErrRelease == "releaseInterface failed"

ErrDeviceClose == "device.close failed"

NoLife ==
  /\ lpc = "none"
  /\ transportKind = "none"
  /\ nPackets = 0
  /\ nWritten = 0
  /\ opened = FALSE
  /\ closeCalls = 0
  /\ writeError = "none"
  /\ jobOutcome = "pending"

\* try { ... } finally { await transport.close() }: what close throws
\* replaces what the try block threw; "none" is a call that resolves
FinallyOutcome(closeError) ==
  IF closeError # "none" THEN closeError ELSE writeError

\* the call settles after its finally block
Settle(closeError) ==
  /\ lpc' = "settled"
  /\ jobOutcome' = FinallyOutcome(closeError)

\* const transport = await WebUSBTransport.requestDevice() (or
\* WebBLETransport): it resolves with a connected transport, or rejects
\* before the try
RequestDevice(ok) ==
  /\ lpc = "requesting"
  /\ IF ok
     THEN lpc' = "writing" /\ opened' = TRUE /\ UNCHANGED jobOutcome
     ELSE lpc' = "refused" /\ jobOutcome' = ErrRequest /\ UNCHANGED opened
  /\ UNCHANGED <<transportKind, nPackets, nWritten, closeCalls, writeError>>
  /\ UNCHANGED <<codecVars, txVars, jobVars, concVars, imgVars, bleVars, rtVars, usbVars, infoVars, exportVars, pairVars, pageVars>>

\* one turn of for (const pkt of packets) await transport.write(pkt):
\* transferOut (writeValue) resolves, or it rejects and the loop is left for
\* the finally block; the device may be gone by then (gone), which the
\* browser shows as device.opened (server.connected) false
TransportWrite(wok, gone) ==
  /\ lpc = "writing"
  /\ nWritten < nPackets
  /\ IF wok
     THEN /\ ~gone
          /\ nWritten' = nWritten + 1
          /\ UNCHANGED <<lpc, opened, writeError>>
     ELSE /\ writeError' = ErrWrite
          /\ opened' = ~gone
          /\ lpc' = "finally"
          /\ UNCHANGED nWritten
  /\ UNCHANGED <<transportKind, nPackets, closeCalls, jobOutcome>>
  /\ UNCHANGED <<codecVars, txVars, jobVars, concVars, imgVars, bleVars, rtVars, usbVars, infoVars, exportVars, pairVars, pageVars>>

\* every packet is written: the loop ends and the finally block runs
WriteLoopEnd ==
  /\ lpc = "writing"
  /\ nWritten = nPackets
  /\ lpc' = "finally"
  /\ UNCHANGED <<transportKind, nPackets, nWritten, opened, closeCalls, writeError, jobOutcome>>
  /\ UNCHANGED <<codecVars, txVars, jobVars, concVars, imgVars, bleVars, rtVars, usbVars, infoVars, exportVars, pairVars, pageVars>>

\* transport.close() up to its first await: nothing to do when the device
\* is not open (the server not connected); WebBLETransport disconnects at
\* once, WebUSBTransport goes on to releaseInterface
TransportClose ==
  /\ lpc = "finally"
  /\ closeCalls' = closeCalls + 1
  /\ IF ~opened
     THEN Settle("none") /\ UNCHANGED opened
     ELSE IF transportKind = "ble"
          THEN Settle("none") /\ opened' = FALSE
          ELSE lpc' = "releasing" /\ UNCHANGED <<opened, jobOutcome>>
  /\ UNCHANGED <<transportKind, nPackets, nWritten, writeError>>
  /\ UNCHANGED <<codecVars, txVars, jobVars, concVars, imgVars, bleVars, rtVars, usbVars, infoVars, exportVars, pairVars, pageVars>>

\* await this.device.releaseInterface(this.interfaceNumber): when it
\* rejects, close throws and device.close() is not reached
ReleaseInterface(ok) ==
  /\ lpc = "releasing"
  /\ IF ok
     THEN lpc' = "closing" /\ UNCHANGED jobOutcome
     ELSE Settle(ErrRelease)
  /\ UNCHANGED <<transportKind, nPackets, nWritten, opened, closeCalls, writeError>>
  /\ UNCHANGED <<codecVars, txVars, jobVars, concVars, imgVars, bleVars, rtVars, usbVars, infoVars, exportVars, pairVars, pageVars>>

\* await this.device.close()
DeviceClose(ok) ==
  /\ lpc = "closing"
  /\ IF ok
     THEN Settle("none") /\ opened' = FALSE
     ELSE Settle(ErrDeviceClose) /\ UNCHANGED opened
  /\ UNCHANGED <<transportKind, nPackets, nWritten, closeCalls, writeError>>
  /\ UNCHANGED <<codecVars, txVars, jobVars, concVars, imgVars, bleVars, rtVars, usbVars, infoVars, exportVars, pairVars, pageVars>>

\* ------------------------------------------------------------------------
\* Specifications
\* ------------------------------------------------------------------------
NoSession == impl = "none" /\ via = "none" /\ SessionIdle

NoConc == cimpl = "none" /\ ConcIdle

NoBle == bpath = "none" /\ BleIdle

CodecInit ==
  CodecIdle /\ NoSession /\ JobIdle /\ NoConc /\ ImageIdle /\ NoBle /\ NoRouter /\ NoUsb /\ NoInfo /\ NoExport /\ NoPair /\ NoPage /\ NoLife

CodecNext ==
  \/ \E e \in EncInputs : Encode(e[1], e[2])
  \/ \E i \in 0..(Len(wire) - 1), k \in 0..7 : FlipBit(i, k)
  \/ \E b \in Buffers : Inject(b)
  \/ Decode
  \/ ReEncode

SpecCodec == CodecInit /\ [][CodecNext]_vars

Init ==
  /\ CodecIdle
  /\ SessionIdle
  /\ \/ impl = "web" /\ via \in {"usb", "ble"}
     \/ impl = "client" /\ via = "usb"
  /\ JobIdle
  /\ NoConc
  /\ ImageIdle
  /\ NoBle
  /\ NoRouter
  /\ NoUsb
  /\ NoInfo
  /\ NoExport
  /\ NoPair
  /\ NoPage
  /\ NoLife

Next ==
  \/ \E c \in WebCalls : WebCall(c)
  \/ \E chunk \in Chunks(call) : WebRoundUsb(chunk)
  \/ WebReadFail
  \/ WebRoundBle
  \/ \E chunk \in Chunks(call) : BleNotify(chunk)
  \/ WebGiveUp
  \/ \E c \in ClientCalls : ClientCall(c)
  \/ \E response \in Chunks(call) : ClientAttempt(response)
  \/ ClientReadFail
  \/ ClientGiveUp
  \/ CallDone

Spec == Init /\ [][Next]_vars

\* the raster encoders on their own, and a print job of PrinterClient
PrintInit ==
  /\ CodecIdle
  /\ SessionIdle
  /\ impl = "client"
  /\ via = "usb"
  /\ JobIdle
  /\ NoConc
  /\ ImageIdle
  /\ NoBle
  /\ NoRouter
  /\ NoUsb
  /\ NoInfo
  /\ NoExport
  /\ NoPair
  /\ NoPage
  /\ NoLife

PrintNext ==
  \/ \E cv \in Canvases : LoadImage(cv)
  \/ RunClientEncode
  \/ RunConvert
  \/ \E d \in Densities : RunGetMonoBits(d)
  \/ RunEncodeImage
  \/ \E c \in JobCalls : JobStart(c[1], c[2], c[3], c[4])
  \/ JobCall
  \/ \E response \in Chunks(call) : ClientAttempt(response)
  \/ ClientReadFail
  \/ ClientGiveUp
  \/ JobReturn
  \/ JobThrow
  \/ JobRow

SpecPrint == PrintInit /\ [][PrintNext]_vars

\* the steps of a job that has started: the event loop resumes the job
\* whenever the promise it awaits has settled, and every transfer settles
JobRun ==
  \/ JobCall
  \/ \E response \in Chunks(call) : ClientAttempt(response)
  \/ ClientReadFail
  \/ ClientGiveUp
  \/ JobReturn
  \/ JobThrow
  \/ JobRow

SpecPrintLive == PrintInit /\ [][PrintNext]_vars /\ WF_vars(JobRun)

\* the three print paths on the canvas the d11 configuration supports
ViaNext ==
  \/ \E cv \in JobCanvases : LoadImage(cv)
  \/ \E d \in Densities : RunGetMonoBits(d)
  \/ RunEncodeImage
  \/ \E t \in {"usb", "ble"} : PrintViaOpen(t)
  \/ \E wok \in BOOLEAN : PrintViaWrite(wok)
  \/ PrintViaClose
  \/ \E c \in JobCalls \cup ResizeCalls : JobStart(c[1], c[2], c[3], c[4])
  \/ JobRun

SpecVia == PrintInit /\ [][ViaNext]_vars

ConcInit ==
  /\ CodecIdle
  /\ NoSession
  /\ JobIdle
  /\ cimpl \in {"web", "client"}
  /\ ConcIdle
  /\ ImageIdle
  /\ NoBle
  /\ NoRouter
  /\ NoUsb
  /\ NoInfo
  /\ NoExport
  /\ NoPair
  /\ NoPage
  /\ NoLife

ConcNext ==
  \/ \E p \in Callers, c \in ConcCalls(cimpl) : ConcCall(p, c)
  \/ \E p \in Callers, chunk \in ConcChunks(cimpl) : ConcRoundWeb(p, chunk)
  \/ \E p \in Callers, response \in ConcChunks(cimpl) : ConcAttemptClient(p, response)
  \/ \E p \in Callers : ConcGiveUp(p)

SpecConc == ConcInit /\ [][ConcNext]_vars

\* the buffer of a connected PrinterClientWeb and a printer that sends one
\* of the streams
RouterInit ==
  /\ CodecIdle
  /\ NoSession
  /\ JobIdle
  /\ NoConc
  /\ ImageIdle
  /\ NoBle
  /\ NoUsb
  /\ NoInfo
  /\ NoExport
  /\ NoPair
  /\ NoPage
  /\ NoLife
  /\ rpc = "idle"
  /\ rvia \in {"usb", "ble", "transport"}
  /\ rstream \in Streams
  /\ rrecv = 0
  /\ rbuf = <<>>
  /\ rout = <<>>
  /\ rerr = "none"
  /\ rexp = Undef
  /\ ratt = 0

RouterNext ==
  \/ RouterCall
  \/ \E k \in 0..Len(Pending) : RouterReceiveUsb(k)
  \/ RouterReceiveBle
  \/ \E k \in 1..Len(Pending) : RouterNotify(k)
  \/ \E k \in 1..Len(rstream.frames) : ReadLoopStart(rstream.frames[k][3])
  \/ \E k \in 0..Len(Pending) : ReadLoopAttempt(k)
  \/ ReadLoopGiveUp

SpecRouter == RouterInit /\ [][RouterNext]_vars

\* the same clients and a printer whose stream ends in a damaged frame
BadTailInit ==
  /\ CodecIdle
  /\ NoSession
  /\ JobIdle
  /\ NoConc
  /\ ImageIdle
  /\ NoBle
  /\ NoUsb
  /\ NoInfo
  /\ NoExport
  /\ NoPair
  /\ NoPage
  /\ NoLife
  /\ rpc = "idle"
  /\ rvia \in {"usb", "ble", "transport"}
  /\ rstream \in BadTailStreams
  /\ rrecv = 0
  /\ rbuf = <<>>
  /\ rout = <<>>
  /\ rerr = "none"
  /\ rexp = Undef
  /\ ratt = 0

SpecBadTail == BadTailInit /\ [][RouterNext]_vars

\* every call of receivePackets returns or throws, and the bytes of the
\* stream keep arriving until the printer has sent them all
RouterRun ==
  \/ RouterCall
  \/ \E k \in 0..Len(Pending) : RouterReceiveUsb(k)
  \/ RouterReceiveBle

RouterArrive ==
  \/ \E k \in 1..Len(Pending) : RouterReceiveUsb(k)
  \/ \E k \in 1..Len(Pending) : RouterNotify(k)

SpecRouterLive ==
  RouterInit /\ [][RouterNext]_vars /\ WF_vars(RouterRun) /\ SF_vars(RouterArrive)

\* each connect on each device
UsbInit ==
  /\ CodecIdle
  /\ NoSession
  /\ JobIdle
  /\ NoConc
  /\ ImageIdle
  /\ NoBle
  /\ NoRouter
  /\ NoInfo
  /\ NoExport
  /\ NoPair
  /\ NoPage
  /\ NoLife
  /\ upc = "idle"
  /\ uimpl \in {"PrinterClientWeb", "transport-usb", "niimbot-web"}
  /\ udev \in Devices
  /\ interfaceNumber = NullNum
  /\ endpointOut = NullNum
  /\ endpointIn = NullNum
  /\ claimed = {}

UsbNext ==
  \/ UsbOpen
  \/ ConnectUSBFind
  \/ TransportConnectFind
  \/ UsbClaim
  \/ NiimbotWebClaim

SpecUsb == UsbInit /\ [][UsbNext]_vars

\* getInfo of each client for each key
InfoInit ==
  /\ CodecIdle
  /\ NoSession
  /\ JobIdle
  /\ NoConc
  /\ ImageIdle
  /\ NoBle
  /\ NoRouter
  /\ NoUsb
  /\ NoExport
  /\ NoPair
  /\ NoPage
  /\ NoLife
  /\ gpc = "transceive"
  /\ gimpl \in {"web", "client"}
  /\ gkey \in InfoKeysAsked
  /\ resp = Null
  /\ info = InfoNull

InfoNext ==
  \/ \E r \in {Null} \cup {Packet(gkey, d) : d \in InfoData} : GetInfoResponse(r)
  \/ GetInfoReturn

SpecInfo == InfoInit /\ [][InfoNext]_vars

\* the PNG export on each payload
ExportInit ==
  /\ CodecIdle
  /\ NoSession
  /\ JobIdle
  /\ NoConc
  /\ ImageIdle
  /\ NoBle
  /\ NoRouter
  /\ NoUsb
  /\ NoInfo
  /\ NoPair
  /\ NoPage
  /\ NoLife
  /\ xpc = "start"
  /\ bitmapBytes = <<>>
  /\ niimbotPacket = <<>>

ExportNext ==
  \/ \E bytes \in ExportPayloads : ExportBitmap(bytes)
  \/ ExportPacket

SpecExport == ExportInit /\ [][ExportNext]_vars

\* a connected client of either kind and a printer that owes nothing
PairInit ==
  /\ CodecIdle
  /\ NoSession
  /\ JobIdle
  /\ NoConc
  /\ ImageIdle
  /\ NoBle
  /\ NoRouter
  /\ NoUsb
  /\ NoInfo
  /\ NoExport
  /\ NoPage
  /\ NoLife
  /\ \E c \in {<<"web", "usb">>, <<"web", "ble">>, <<"client", "usb">>} :
       pairImpl = c[1] /\ pairVia = c[2]
  /\ pairState = "idle"
  /\ callNo = 0
  /\ pairAttempt = 0
  /\ pairBuffer = <<>>
  /\ wireReplies = <<>>
  /\ owed = {}
  /\ returnedFor = 0

PairNext ==
  \/ PairCall
  \/ \E n \in 1..MaxPairCalls : PrinterReply(n)
  \/ PairNotify
  \/ \E k \in 0..MaxPairCalls : PairRoundWeb(k)
  \/ PairAttemptClient
  \/ PairGiveUp
  \/ PairDone

SpecPair == PairInit /\ [][PairNext]_vars

\* the page after it is mounted, with either printDesign
PageInit ==
  /\ CodecIdle
  /\ NoSession
  /\ JobIdle
  /\ NoConc
  /\ ImageIdle
  /\ NoBle
  /\ NoRouter
  /\ NoUsb
  /\ NoInfo
  /\ NoExport
  /\ NoPair
  /\ NoLife
  /\ variant \in {"+page.svelte", "transport-ble.js"}
  /\ printerClient = "null"
  /\ isPrinting = FALSE
  /\ status = "Ready"
  /\ loads = 0
  /\ jobs = 0
  /\ clicks = 0
  /\ ignored = 0

PageNext ==
  \/ PageConnect
  \/ PageDisconnect
  \/ \E thrown \in BOOLEAN : PrintDesign(thrown)
  \/ ImgOnload
  \/ ImgOnerror
  \/ PrintResolved
  \/ PrintRejected

SpecPage == PageInit /\ [][PageNext]_vars

LifeInit ==
  /\ CodecIdle
  /\ NoSession
  /\ JobIdle
  /\ NoConc
  /\ ImageIdle
  /\ NoBle
  /\ NoRouter
  /\ NoUsb
  /\ NoInfo
  /\ NoExport
  /\ NoPair
  /\ NoPage
  /\ lpc = "requesting"
  /\ transportKind \in {"usb", "ble"}
  /\ nPackets \in 0..MaxJobPackets
  /\ nWritten = 0
  /\ opened = FALSE
  /\ closeCalls = 0
  /\ writeError = "none"
  /\ jobOutcome = "pending"

LifeNext ==
  \/ \E ok \in BOOLEAN : RequestDevice(ok)
  \/ \E wok \in BOOLEAN, gone \in BOOLEAN : TransportWrite(wok, gone)
  \/ WriteLoopEnd
  \/ TransportClose
  \/ \E ok \in BOOLEAN : ReleaseInterface(ok)
  \/ \E ok \in BOOLEAN : DeviceClose(ok)

SpecLife == LifeInit /\ [][LifeNext]_vars

BleInit ==
  /\ CodecIdle
  /\ NoSession
  /\ JobIdle
  /\ NoConc
  /\ ImageIdle
  /\ bpath \in BlePaths
  /\ BleIdle
  /\ NoRouter
  /\ NoUsb
  /\ NoInfo
  /\ NoExport
  /\ NoPair
  /\ NoPage
  /\ NoLife

BleNext ==
  \/ \E n \in 0..MaxWrite : BleWrite(n)
  \/ BleLoopEnd
  \/ BleIssue
  \/ \E ok \in BOOLEAN : BleSettle(ok)
  \/ \E ok \in BOOLEAN : BleWriteWhole(ok)

SpecBle == BleInit /\ [][BleNext]_vars

\* ------------------------------------------------------------------------
\* Properties of the codec (checked under SpecCodec)
\* ------------------------------------------------------------------------
\* bit k of a
BitOf(a, k) == (a \div (2 ^ k)) % 2

\* the XOR of type, n and the payload bytes, stated bit by bit: bit k of the
\* result is the parity of the number of operands that have bit k set
XorOfFrame(type, data) ==
  LET ones(k) == BitOf(type, k) + BitOf(Len(data), k)
                   + Cardinality({ i \in 1..Len(data) : BitOf(data[i], k) = 1 })
      bit(k) == (ones(k) % 2) * (2 ^ k)
  IN  bit(0) + bit(1) + bit(2) + bit(3) + bit(4) + bit(5) + bit(6) + bit(7)

\* C1: decoding the encoding of (type, payload), payload of at most 255
\* bytes, gives back the same type and the same payload bytes.
RoundTripDecodeEncode ==
  (cpc = "decoded" /\ src = "enc" /\ Len(pkt.data) <= MaxPayloadLen)
    => (dec.ok /\ dec.type = pkt.type /\ dec.data = pkt.data)

\* a 255-byte payload has been encoded and decoded again
RoundTripWitness ==
  /\ cpc = "decoded"
  /\ src = "enc"
  /\ Len(pkt.data) = MaxPayloadLen
  /\ dec.ok

\* C2: a frame is 55 55, type, n, the n payload bytes, the XOR of type, n
\* and the payload bytes, AA AA (n + 7 bytes); (0x01, []) encodes to
\* 55 55 01 00 01 AA AA.
FrameLayout ==
  (cpc = "wire" /\ src = "enc" /\ Len(pkt.data) <= MaxPayloadLen)
    => LET n == Len(pkt.data)
       IN  /\ Len(wire) = n + 7
           /\ wire[1] = 85 /\ wire[2] = 85
           /\ wire[3] = pkt.type
           /\ wire[4] = n
           /\ \A i \in 1..n : wire[4 + i] = pkt.data[i]
           /\ wire[n + 5] = XorOfFrame(pkt.type, pkt.data)
           /\ wire[n + 6] = 170 /\ wire[n + 7] = 170
           /\ (pkt.type = 1 /\ n = 0) => wire = <<85, 85, 1, 0, 1, 170, 170>>

\* (0x01, []) has been encoded
FrameLayoutWitness ==
  /\ cpc = "wire"
  /\ src = "enc"
  /\ pkt = [type |-> 1, data |-> <<>>]
  /\ wire = <<85, 85, 1, 0, 1, 170, 170>>

ScenarioPacket == [type |-> 19, data |-> <<0, 24, 1, 128>>]

\* C3 as stated: (0x13, [00 18 01 80]) encodes to
\* 55 55 13 04 00 18 01 80 9E AA AA.
ScenarioChecksum9E ==
  (cpc = "wire" /\ src = "enc" /\ pkt = ScenarioPacket)
    => wire = <<85, 85, 19, 4, 0, 24, 1, 128, 158, 170, 170>>

\* C3: (0x13, [00 18 01 80]) encodes to 55 55 13 04 00 18 01 80 8E AA AA:
\* the checksum byte 0x13^0x04^0x00^0x18^0x01^0x80 is 0x8E.
ScenarioChecksum8E ==
  (cpc = "wire" /\ src = "enc" /\ pkt = ScenarioPacket)
    => wire = <<85, 85, 19, 4, 0, 24, 1, 128, 142, 170, 170>>

\* the scenario packet has been encoded
ScenarioWitness ==
  /\ cpc = "wire"
  /\ src = "enc"
  /\ pkt = ScenarioPacket
  /\ Len(wire) = 11

\* C4: encoding a payload longer than 255 bytes produces no frame.
PayloadTooLongRejected ==
  (cpc = "wire" /\ src = "enc" /\ Len(pkt.data) > MaxPayloadLen)
    => wire = <<>>

\* C5: after a single-bit flip in an encoded frame, fromBytes fails (the
\* claim goes on to name the failure: a checksum mismatch or an invalid
\* trailer).
SingleBitFlipRejected ==
  (cpc = "decoded" /\ src = "flip" /\ Len(pkt.data) <= MaxPayloadLen)
    => ~dec.ok

\* C6: re-encoding the packet that fromBytes decoded from a byte buffer it
\* accepted gives back the buffer, byte for byte.
RoundTripEncodeDecode ==
  (cpc = "reencoded" /\ src = "raw") => wire2 = wire

\* ------------------------------------------------------------------------
\* Properties of transceive and the command helpers (checked under Spec)
\* ------------------------------------------------------------------------
\* the latest call entered transceive and has not been handed back yet
InTransceive == call.valid /\ tpc \in {"polling", "returned", "failed"}

\* the latest call entered transceive and is over
TransceiveOver == call.valid /\ tpc \in {"returned", "failed"}

ErrorPacketFailsCall ==
  (InTransceive /\ ERROR_PACKET \in seen)
    => (tpc = "failed" /\ error = ErrErrorPacket)

\* the request code and the response offset the claim names for a helper
ClaimedRequest(name) ==
  CASE name = "setLabelType" -> 35
    [] name = "setLabelDensity" -> 33
    [] name = "allowPrintClear" -> 32
    [] name = "getPrintStatus" -> 163
    [] name = "startPrint" -> 1
    [] name = "endPrint" -> 243
    [] name = "startPagePrint" -> 3
    [] name = "endPagePrint" -> 227
    [] name = "setDimension" -> 19
    [] name = "setQuantity" -> 21
    [] name = "heartbeat" -> 220
    [] name = "getRfid" -> 26

ClaimedOffset(name) ==
  IF name \in {"setLabelType", "setLabelDensity", "allowPrintClear",
               "getPrintStatus"}
  THEN 16 ELSE 1

\* C9: every helper other than getInfo awaits request + 16 (SET_LABEL_TYPE,
\* SET_LABEL_DENSITY, ALLOW_PRINT_CLEAR, GET_PRINT_STATUS) or request + 1
\* (the others): that is the type transceive waits for and the type of
\* every packet it returns.
ResponseOffsets ==
  (InTransceive /\ call.name # "getInfo")
    => LET awaited == ClaimedRequest(call.name) + ClaimedOffset(call.name)
       IN  /\ writes[1][3] = ClaimedRequest(call.name)
           /\ expectedType = awaited
           /\ result.ok => result.type = awaited
           /\ awaited \in seen => (tpc = "returned" /\ result.ok)

\* setLabelType has returned the frame of type 0x23 + 16
ResponseOffsetsWitness ==
  /\ tpc = "returned"
  /\ call.name = "setLabelType"
  /\ result.ok
  /\ result.type = 51

\* the frame a GET_INFO request for key k is written as
GetInfoFrame(k) == <<85, 85, 64, 1, k, XorOfFrame(64, <<k>>), 170, 170>>

InFlight == { p \in Callers : cst[p] = "polling" }

\* C11: transceive calls on one client are serialized: a second request is
\* not written while a first call is still waiting for its response, so at
\* most one request is in flight at any time.
OneRequestInFlight == Cardinality(InFlight) <= 1

\* ------------------------------------------------------------------------
\* Properties of printImage and the raster encoders (checked under SpecPrint)
\* ------------------------------------------------------------------------
\* the request codes of the frames the job wrote, in order
SentCodes == [i \in 1..Len(sent) |-> sent[i][3]]

Repeat(x, n) == [i \in 1..n |-> x]

IsPrefix(a, b) == Len(a) <= Len(b) /\ a = SubSeq(b, 1, Len(a))

\* the order of requests the claim gives for a job with e END_PRINT requests
ClaimedOrder(cv, n, e) ==
  <<33, 35, 1, 3, 19>> \o (IF n > 1 THEN <<21>> ELSE <<>>)
    \o Repeat(133, cv.height) \o <<227>> \o Repeat(243, e)

\* the response type of a control request
ClaimedResponse(code) == code + (IF code \in {33, 35} THEN 16 ELSE 1)

\* C12: printImage writes SET_LABEL_DENSITY, SET_LABEL_TYPE, START_PRINT,
\* START_PAGE_PRINT, SET_DIMENSION, SET_QUANTITY (exactly when copies > 1),
\* one IMAGE_ROW per row, END_PAGE_PRINT, then one or more END_PRINT, in
\* this order; every control request is written only after the response to
\* the control request before it was received.
PrintOrder ==
  (jpc # "idle") =>
    /\ IsPrefix(SentCodes, ClaimedOrder(canvas, copies, MaxEndPolls))
    /\ (jpc = "done") =>
         /\ endPolls.writes >= 1
         /\ SentCodes = ClaimedOrder(canvas, copies, endPolls.writes)
    /\ Len(ControlSent) <= Len(acked) + 1
    /\ \A i \in 1..Len(acked) : acked[i] = ClaimedResponse(ControlSent[i][3])

\* a job of two copies has completed after two END_PRINT requests
PrintOrderWitness ==
  /\ jpc = "done"
  /\ copies = 2
  /\ endPolls.writes = 2
  /\ Len(sent) = canvas.height + 9

\* C13: a control step whose response carries ack 0 aborts the job: the job
\* has failed and has written no request since.
RejectedStepAborts ==
  (rejected.step # "none") => (jpc = "failed" /\ Len(sent) = rejected.nsent)

\* the frames of sent that are END_PRINT requests
EndPrintSent == SelectSeq(sent, LAMBDA f : f[3] = 243)

PrintImageTerminates == (jpc # "idle") ~> (jpc \in {"done", "failed"})

\* the row index in the payload of an IMAGE_ROW packet
RowIndex(payload) == payload[1] * 256 + payload[2]

\* the IMAGE_ROW frames written by the job
RowFramesSent == SelectSeq(sent, LAMBDA f : f[3] = 133)

\* the IMAGE_ROW packets among those of encodeImage (packet.js)
RowPackets == SelectSeq(linePackets, LAMBDA q : q[3] = 133)

\* C16: for a raster of height H each encoder emits exactly H IMAGE_ROW
\* packets with the row indices 0, 1, ..., H - 1 in this order, and
\* printImage writes them to the transport in this order.
RowsInOrder ==
  /\ (ipc = "encoded") =>
       /\ Len(rows) = image.height
       /\ \A k \in 1..Len(rows) :
            rows[k].type = 133 /\ RowIndex(rows[k].data) = k - 1
  /\ (ipc = "packets") =>
       /\ Len(RowPackets) = image.height
       /\ \A k \in 1..Len(RowPackets) :
            RowIndex(SubSeq(RowPackets[k], 5, 6)) = k - 1
  /\ (jpc # "idle") =>
       /\ Len(RowFramesSent) <= canvas.height
       /\ \A k \in 1..Len(RowFramesSent) :
            RowIndex(SubSeq(RowFramesSent[k], 5, 6)) = k - 1
       /\ (jpc \in {"endPagePrint", "endPrint", "done"})
            => Len(RowFramesSent) = canvas.height

\* the rows of the tall canvas have been encoded; the last index needs the
\* high byte
RowsInOrderWitness ==
  /\ ipc = "encoded"
  /\ image.height = TallHeight
  /\ rows[TallHeight].data[1] = 1

\* the pixel (x, y) of a canvas
PixelAt(cv, x, y) == cv.px[((y * cv.width + x) % Len(cv.px)) + 1]

\* the bit of pixel (x, y) in a packed bitmap of width W, 0 past column W - 1
InkBit(ink(_, _), W, x, y) == IF x < W THEN ink(x, y) ELSE 0

\* each row of the packed bitmap has ceil(W / 8) bytes, and bit 7 - k of
\* byte y * ceil(W / 8) + j is ink(8j + k, y), or 0 past column W - 1
PackedAs(bytes, W, H, ink(_, _)) ==
  LET bpr == (W + 7) \div 8
  IN  /\ Len(bytes) = bpr * H
      /\ \A y \in 0..(H - 1), j \in 0..(bpr - 1), k \in 0..7 :
           BitOf(bytes[y * bpr + j + 1], 7 - k) = InkBit(ink, W, 8 * j + k, y)

\* the line bytes of all row packets of PrinterClient.encodeImage, in order
RowBytes == Flatten([k \in 1..Len(rows) |-> SubSeq(rows[k].data, 7, Len(rows[k].data))])

\* C17: in the packed bitmap of a W x H raster each row occupies ceil(W/8)
\* bytes, and bit 7 - k of byte y * ceil(W/8) + j is 1 exactly when
\* x = 8j + k < W and pixel (x, y) is ink; the bits past column W - 1 are 0.
BitPacking ==
  /\ (ipc = "converted") =>
       PackedAs(bitmap, image.width, image.height,
                LAMBDA x, y : MonoInk(image, image.width, x, y))
  /\ (ipc = "mono") =>
       PackedAs(monoBits.bits, image.width, image.height,
                LAMBDA x, y : DensityInk(image, dens, x, y))
  /\ (ipc = "encoded" /\ image.height <= MaxHeight) =>
       PackedAs(RowBytes, image.width, image.height,
                LAMBDA x, y : ClientInk(image, x, y))

\* a black canvas whose width is not a multiple of 8 has been packed: the
\* second byte of the row holds the columns from 8 on in its top bits and
\* nothing else
BitPackingWitness ==
  /\ ipc = "converted"
  /\ image.width = MaxWidth
  /\ image.px = <<Black>>
  /\ bitmap[1] = 255
  /\ bitmap[2] = 256 - 2 ^ (16 - MaxWidth)

\* the bit of pixel (x, y) in a packed bitmap
PackedBit(bytes, W, x, y) ==
  BitOf(bytes[y * ((W + 7) \div 8) + (x \div 8) + 1], 7 - (x % 8))

\* the bit is 1 exactly when below holds of the pixel's colour, whatever its
\* alpha; white gives 0 and black gives 1
ThresholdedBy(bytes, below(_, _, _)) ==
  \A x \in 0..(image.width - 1), y \in 0..(image.height - 1) :
    LET p == PixelAt(image, x, y)
        bit == PackedBit(bytes, image.width, x, y)
    IN  /\ (bit = 1) <=> below(p[1], p[2], p[3])
        /\ (p[1] = 255 /\ p[2] = 255 /\ p[3] = 255) => bit = 0
        /\ (p[1] = 0 /\ p[2] = 0 /\ p[3] = 0) => bit = 1

IssuedSizes == [i \in 1..Len(issued) |-> Len(issued[i])]

\* C19: WebBLETransport.write(data) with n bytes issues ceil(n / 20)
\* writeValue calls, one after the other has settled, each of at most 20
\* bytes and all but the last of exactly 20, whose concatenation is data;
\* 78 bytes give writes of 20, 20, 20 and 18 bytes.
BleFragmentation ==
  (bpath = "WebBLETransport") =>
    /\ \A i \in 1..Len(issued) :
         /\ Len(issued[i]) <= 20
         /\ Len(issued[i]) >= 1
         /\ (i < Len(issued)) => Len(issued[i]) = 20
    /\ IsPrefix(Flatten(issued), bdata)
    /\ Len(issued) = (bi \div 20) + (IF bpc \in {"awaiting", "failed"} THEN 1 ELSE 0)
    /\ (bpc = "done") =>
         /\ Flatten(issued) = bdata
         /\ Len(issued) = (Len(bdata) + 19) \div 20
         /\ (Len(bdata) = 78) => IssuedSizes = <<20, 20, 20, 18>>

\* 78 bytes have been written in four calls
BleFragmentationWitness ==
  /\ bpath = "WebBLETransport"
  /\ bpc = "done"
  /\ Len(bdata) = 78
  /\ IssuedSizes = <<20, 20, 20, 18>>

\* C20: no BLE write path passes more than 20 bytes to one writeValue call.
EveryBleWriteFragments == \A i \in 1..Len(issued) : Len(issued[i]) <= 20

\* ------------------------------------------------------------------------
\* Properties of the print paths (checked under SpecVia)
\* ------------------------------------------------------------------------
\* a Dialect A frame: 55 55, type, one length byte that counts the payload,
\* the payload, the XOR of type, length and payload, AA AA
IsDialectA(f) ==
  /\ Len(f) >= 7
  /\ f[1] = 85 /\ f[2] = 85
  /\ f[4] = Len(f) - 7
  /\ f[Len(f) - 2] = XorRange(f, 3, Len(f) - 3)
  /\ f[Len(f) - 1] = 170 /\ f[Len(f)] = 170

\* the packets printViaUSB / printViaBLE have handed to transport.write
ViaWritten == SubSeq(linePackets, 1, pvi)

\* C21: every frame that a print path has written to its transport, be it
\* PrinterClient.printImage (sent) or printViaUSB / printViaBLE (the first
\* pvi packets of encodeImage), is a Dialect A frame
LiveFramesDialectA ==
  /\ \A i \in 1..Len(sent) : IsDialectA(sent[i])
  /\ pvia # "none" => \A i \in 1..Len(ViaWritten) : IsDialectA(ViaWritten[i])

\* the width printImage validates: targetWidth || imageCanvas.width
FinalWidth == IF target[1] # 0 THEN target[1] ELSE imageCanvas.width

\* the job threw at validateDimensions with nothing written
FailedUnwritten ==
  /\ jpc = "failed"
  /\ error = ErrValidation
  /\ sent = <<>>
  /\ writes = <<>>

StreamPacket(k) == fromBytes(rstream.frames[k])

\* C23: once the buffer holds garbage followed by the frames of the stream,
\* repeated receivePackets calls eventually return the first valid frame
Resynchronizes ==
  (rstream.garbage # <<>> /\ rbuf = StreamBytes(rstream))
    ~> (\E i \in 1..Len(rout) : rout[i] = StreamPacket(1))

\* the bytes of the first n frames of the stream
FrameBytes(st, n) == Flatten(SubSeq(st.frames, 1, n))

\* what holds of a stream of valid frames when n packets have been returned
\* of which r bytes have arrived and the buffer is buf: the packets are the
\* first n frames in wire order, all their bytes have arrived, the buffer
\* is the rest of what has arrived, and it holds no whole frame
RoutedExactly(st, out, r, buf) ==
  LET n == Len(out)
      used == Len(FrameBytes(st, n))
  IN  /\ n <= Len(st.frames)
      /\ \A k \in 1..n : out[k] = fromBytes(st.frames[k])
      /\ used <= r
      /\ buf = SubSeq(StreamBytes(st), used + 1, r)
      /\ n < Len(st.frames) => Len(buf) < Len(st.frames[n + 1])

\* C24: when the stream is a sequence of valid frames that arrives in
\* arbitrary pieces, every receivePackets call ends without an error, has
\* returned so far exactly the frames whose last byte has arrived, each
\* once and in wire order, and leaves in the buffer exactly the received
\* bytes that belong to no returned frame
FramesRoutedOnce ==
  [][(rstream.garbage = <<>> /\ rpc = "called" /\ rpc' = "idle")
       => (rerr' = "none" /\ RoutedExactly(rstream, rout', rrecv', rbuf'))]_vars

\* a frame was returned while the first bytes of the next one wait in the
\* buffer
FramesRoutedWitness ==
  /\ rstream.garbage = <<>>
  /\ rpc = "idle"
  /\ Len(rout) = 1
  /\ rbuf # <<>>
  /\ rrecv < Len(StreamBytes(rstream))

\* the number of bytes of the stream up to the end of its first frame of
\* type t
EndOfFrame(st, t) ==
  LET k == CHOOSE i \in 1..Len(st.frames) :
             /\ st.frames[i][3] = t
             /\ \A j \in 1..(i - 1) : st.frames[j][3] # t
  IN  Len(FrameBytes(st, k))

\* C25: a PrinterClient.transceive call whose reads have delivered the whole
\* frame of the expected type (the stream being valid frames only) has not
\* given up: it returns that frame
ReadLoopFindsFrame ==
  (rvia = "transport" /\ rstream.garbage = <<>> /\ rpc = "failed")
    => rrecv < EndOfFrame(rstream, rexp)

\* ------------------------------------------------------------------------
\* Properties of PrinterClientWeb.transceive (checked under Spec)
\* ------------------------------------------------------------------------
\* a polling round of PrinterClientWeb that fromBytes did not end
WebRoundDone ==
  /\ impl = "web"
  /\ reads' = reads + 1
  /\ error' \in {"none", ErrErrorPacket}

\* C26: what PrinterClientWeb.transceive returns is null or a frame of the type
\* request code + response offset, and every frame that a polling round has
\* decoded is gone from the buffer when the round is over, whether it was
\* returned or not, so that no later round or call can return it
UnexpectedDiscarded ==
  /\ [](impl = "web" /\ tpc = "returned"
          => \/ result = Null
             \/ result.ok /\ result.type = call.req + call.off)
  /\ [][WebRoundDone
          => /\ receivePackets(buffer').packets = <<>>
             /\ receivePackets(buffer').err = "none"]_vars

\* a call has returned after frames of another type were decoded
UnexpectedDiscardedWitness ==
  /\ impl = "web"
  /\ tpc = "returned"
  /\ result.ok
  /\ seen \ {expectedType} # {}
  /\ buffer = <<>>

\* the payload that the claim gives a SET_DIMENSION request for a raster of
\* the given width and height: be16(height), then be16(width)
HeightThenWidth(width, height) ==
  <<HiByte(height), LoByte(height), HiByte(width), LoByte(width)>>

\* C27: every SET_DIMENSION request written, by PrinterClientWeb.setDimension
\* (w = width, h = height) or by a PrinterClient called as printImage calls
\* it, carries the 4-byte payload be16(height), be16(width) of one of the
\* rasters <<width, height>> of DimArgs
DimensionHeightFirst ==
  \A i \in 1..Len(writes) :
    writes[i][3] = SET_DIMENSION
      => \E d \in DimArgs :
           SubSeq(writes[i], 5, Len(writes[i]) - 3) = HeightThenWidth(d[1], d[2])

\* ------------------------------------------------------------------------
\* Layout of the IMAGE_ROW payload (checked under SpecPrint)
\* ------------------------------------------------------------------------
\* payload is that of row y of a raster of width W: 6 + ceil(W / 8) bytes,
\* the row index big endian, three zero bytes, 01, then the bytes line
RowPayloadOf(payload, W, y, line) ==
  /\ Len(payload) = 6 + ((W + 7) \div 8)
  /\ payload = <<y \div 256, y % 256, 0, 0, 0, 1>> \o line

\* the payload of a frame of either dialect
PayloadOf(f) == SubSeq(f, 5, Len(f) - 3)

\* C28: each IMAGE_ROW payload, of PrinterClient.encodeImage and of
\* encodeImage (packet.js), is 6 + ceil(width / 8) bytes long: row index y as
\* two bytes big endian, 00 00 00, 01, then the packed bytes of row y; for
\* y = 7 and row bytes A0 A0 it is 00 07 00 00 00 01 A0 A0; the frames that
\* printImage writes carry payloads of this length and with this header
RowPayloadLayout ==
  /\ (ipc = "encoded") =>
       /\ \A k \in 1..Len(rows) :
            RowPayloadOf(rows[k].data, image.width, k - 1,
                         ClientLineBytes(image, k - 1))
       /\ image = A0Canvas => rows[8].data = <<0, 7, 0, 0, 0, 1, 160, 160>>
  /\ (ipc = "packets") =>
       LET bpr == (image.width + 7) \div 8
       IN  /\ \A k \in 1..Len(RowPackets) :
                RowPayloadOf(PayloadOf(RowPackets[k]), image.width, k - 1,
                             SubSeq(monoBits.bits, (k - 1) * bpr + 1, k * bpr))
           /\ image = A0Canvas
                => PayloadOf(RowPackets[8]) = <<0, 7, 0, 0, 0, 1, 160, 160>>
  /\ (jpc # "idle") =>
       \A k \in 1..Len(RowFramesSent) :
         LET payload == PayloadOf(RowFramesSent[k])
         IN  RowPayloadOf(payload, canvas.width, k - 1,
                          SubSeq(payload, 7, Len(payload)))

\* row 7 of the canvas whose rows pack to A0 A0 has been encoded
RowPayloadWitness ==
  /\ ipc = "encoded"
  /\ image = A0Canvas
  /\ rows[8].data = <<0, 7, 0, 0, 0, 1, 160, 160>>

\* C29: in the bitmap of getMonoBits at density d, a pixel whose bit is 1 is
\* also given the bit 1 by getMonoBits at every higher density up to 5
DensityMonotonic ==
  (ipc = "mono") =>
    \A x \in 0..(image.width - 1), y \in 0..(image.height - 1) :
      \A d \in (dens + 1)..5 :
        PackedBit(monoBits.bits, image.width, x, y) = 1
          => DensityInk(image, d, x, y) = 1

\* ------------------------------------------------------------------------
\* Row streaming of printImage (checked under SpecPrint)
\* ------------------------------------------------------------------------
\* C30: while printImage streams rows no transceive call is in progress, and
\* each step it takes writes the frame of the next row, or fails on that
\* write, without a transport read in between: the read counter, the
\* attempt counter, the buffer and the set of decoded types stay as the
\* last control step left them
RowsFireAndForget ==
  /\ [](jpc = "rows" => tpc = "idle")
  /\ [][jpc = "rows"
          => /\ sent' = Append(sent, rowFrames[row + 1])
             /\ sent'[Len(sent')][3] = IMAGE_ROW
             /\ row' = row + 1 \/ jpc' = "failed"
             /\ reads' = reads
             /\ attempt' = attempt
             /\ buffer' = buffer
             /\ seen' = seen
             /\ result' = result]_vars

\* two rows have been written and the third is due
RowsFireAndForgetWitness ==
  /\ jpc = "rows"
  /\ row = 2
  /\ Len(RowFramesSent) = 2

\* ------------------------------------------------------------------------
\* Properties of the failure paths of printImage (checked under SpecPrint)
\* ------------------------------------------------------------------------
\* printImage has thrown, or the helper it awaits has
JobFailing == jpc = "failed" \/ (jpc \in ControlSteps /\ tpc = "failed")

\* C31: when a step of printImage fails (validateDimensions reports an
\* error, a transport write throws, transceive gets no response in six
\* attempts) printImage throws that error to its caller and writes no
\* further request: a failed validation has written nothing at all, and from
\* the failure on the job stays failed with the same error and the same
\* frames written.
FailurePropagates ==
  /\ [](jpc = "failed" =>
          /\ error \in {ErrValidation, ErrTransport, ErrNoResponse}
          /\ error = ErrValidation => sent = <<>> /\ writes = <<>>
          /\ error = ErrNoResponse => reads = ClientPollRounds)
  /\ [][JobFailing =>
          /\ jpc' = "failed"
          /\ error' = error
          /\ sent' = sent
          /\ writes' = writes]_vars

\* the job failed after its rows: END_PAGE_PRINT or END_PRINT got no response
FailurePropagatesWitness ==
  /\ jpc = "failed"
  /\ error = ErrNoResponse
  /\ row = canvas.height
  /\ row > 0
  /\ sent[Len(sent)][3] \in {END_PAGE_PRINT, END_PRINT}

\* ------------------------------------------------------------------------
\* Properties of USB connect (checked under SpecUsb)
\* ------------------------------------------------------------------------
\* the endpoint numbered n is a bulk endpoint of iface in direction dir
BulkEndpointOf(iface, n, dir) ==
  \E j \in 1..Len(iface.endpoints) :
    /\ iface.endpoints[j].endpointNumber = n
    /\ iface.endpoints[j].type = "bulk"
    /\ iface.endpoints[j].direction = dir

\* iface has a bulk-in and a bulk-out endpoint
HasBulkPair(iface) ==
  \E n, m \in 1..(2 * Len(udev)) :
    BulkEndpointOf(iface, n, "in") /\ BulkEndpointOf(iface, m, "out")

\* C32: USB connect claims the first interface, in enumeration order, that
\* has both a bulk-in and a bulk-out endpoint, and caches endpoint numbers of
\* that interface; it claims no other interface, and it fails when no
\* interface has both.
ClaimsFirstBulkPair ==
  /\ \A n \in claimed :
       \E i \in 1..Len(udev) :
         /\ udev[i].interfaceNumber = n
         /\ HasBulkPair(udev[i])
         /\ \A k \in 1..(i - 1) : ~HasBulkPair(udev[k])
  /\ upc = "connected" =>
       \E i \in 1..Len(udev) :
         /\ claimed = {udev[i].interfaceNumber}
         /\ BulkEndpointOf(udev[i], endpointIn, "in")
         /\ BulkEndpointOf(udev[i], endpointOut, "out")
  /\ upc = "failed" => \A i \in 1..Len(udev) : ~HasBulkPair(udev[i])

\* ------------------------------------------------------------------------
\* Properties of getInfo (checked under SpecInfo)
\* ------------------------------------------------------------------------
\* v is the big-endian unsigned integer of data: it is not negative and its
\* base-256 digits are the bytes of data
BigEndianOf(v, data) ==
  /\ v >= 0
  /\ \A j \in 1..Len(data) : (v \div (256 ^ (Len(data) - j))) % 256 = data[j]
  /\ Len(data) = 0 => v = 0
  /\ Len(data) > 0 => v \div (256 ^ (Len(data) - 1)) < 256

\* C33: for a key other than DEVICESERIAL, SOFTVERSION and HARDVERSION,
\* getInfo returns the response payload read as a big-endian unsigned
\* integer, for payloads of 0 to 4 bytes.
InfoBigEndian ==
  (/\ gpc = "returned"
   /\ resp # Null
   /\ gkey \notin {DEVICESERIAL, SOFTVERSION, HARDVERSION}
   /\ Len(resp.data) <= 4)
    => (info.kind = "int" /\ BigEndianOf(info.value, resp.data))

\* ------------------------------------------------------------------------
\* Properties of constructNiimbotPacket (checked under SpecExport)
\* ------------------------------------------------------------------------
\* the packet but for its length field: header, command A2, the payload,
\* the additive checksum over command, length bytes and payload, footer
ExportFrame ==
  LET n == RunLength(bitmapBytes)
  IN  /\ RunLength(niimbotPacket) = n + 8
      /\ RunAt(niimbotPacket, 0) = 85 /\ RunAt(niimbotPacket, 1) = 85
      /\ RunAt(niimbotPacket, 2) = 162
      /\ SubSeq(niimbotPacket, 6, Len(niimbotPacket) - 3) = bitmapBytes
      /\ RunAt(niimbotPacket, n + 5)
           = (162 + RunAt(niimbotPacket, 3) + RunAt(niimbotPacket, 4) + SumRuns(0, bitmapBytes)) % 256
      /\ RunAt(niimbotPacket, n + 6) = 170 /\ RunAt(niimbotPacket, n + 7) = 170

\* C34 as stated: constructNiimbotPacket(payload) is 55 55 A2, the payload
\* length as a big-endian 16-bit field, the payload, the checksum
\* (0xA2 + len_hi + len_lo + sum of payload) mod 256 and AA AA, for every
\* payload a label bitmap can produce
ExportLayout ==
  xpc = "packet" =>
    /\ ExportFrame
    /\ 256 * RunAt(niimbotPacket, 3) + RunAt(niimbotPacket, 4) = RunLength(bitmapBytes)

\* ------------------------------------------------------------------------
\* Properties of consecutive transceive calls (checked under SpecPair)
\* ------------------------------------------------------------------------
\* C35 as stated: the packet a transceive call returns was sent by the
\* printer in reply to that call's own request; the late reply to an earlier
\* request of the same type is never returned to a later call
PairingPreserved == pairState = "returned" => returnedFor = callNo

\* ------------------------------------------------------------------------
\* Properties of the command helpers of PrinterClientWeb (checked under Spec)
\* ------------------------------------------------------------------------
WebHelpers ==
  {"setLabelType", "setLabelDensity", "startPrint", "endPrint",
   "startPagePrint", "endPagePrint", "allowPrintClear", "setDimension",
   "setQuantity"}

\* transceive of a command helper of PrinterClientWeb has returned
WebHelperReturns ==
  impl = "web" /\ tpc = "returned" /\ call.name \in WebHelpers

\* C36: a command helper of PrinterClientWeb returns true exactly when
\* transceive returned a response of the expected type, read within the six
\* rounds, whose first payload byte is not zero; for an ack byte of 0 and for
\* no response at all (null after six rounds) it returns false.
WebHelperTrueOnAck ==
  WebHelperReturns =>
    /\ WebHelperReturn(result)
         <=> (/\ result.ok
              /\ result.type = call.req + call.off
              /\ result.type \in seen
              /\ Len(result.data) >= 1
              /\ result.data[1] # 0)
    /\ result = Null => (~WebHelperReturn(result) /\ attempt = WebPollRounds)
    /\ (result.ok /\ result.data = <<0>>) => ~WebHelperReturn(result)
    /\ attempt <= WebPollRounds

\* setDimension got no response in six rounds and returns false
WebHelperWitness ==
  /\ WebHelperReturns
  /\ call.name = "setDimension"
  /\ result = Null
  /\ attempt = WebPollRounds
  /\ ~WebHelperReturn(result)

\* ------------------------------------------------------------------------
\* Properties of receivePackets on a damaged stream (checked under
\* SpecBadTail)
\* ------------------------------------------------------------------------
\* the bytes of the frames that packets were decoded from
DecodedBytes(packets) ==
  SumSeq([i \in 1..Len(packets) |-> Len(packets[i].data) + 7])

\* C37 as stated: receivePackets loses no decoded frame: the bytes a call
\* removes from this._buffer are the bytes of the frames it returns, also
\* when a later frame in the buffer fails to decode
NoFrameLost ==
  [][(rvia \in {"usb", "ble"} /\ rpc = "called" /\ rpc' = "idle")
       => (Len(rbuf) + (rrecv' - rrecv)) - Len(rbuf')
            = DecodedBytes(SubSeq(rout', Len(rout) + 1, Len(rout')))]_vars

\* ------------------------------------------------------------------------
\* Properties of printDesign (checked under SpecPage)
\* ------------------------------------------------------------------------
\* C38: the page never runs two print jobs at once: printImage is called
\* only when no printImage call of the page is in flight, and isPrinting is
\* true from the click to the end of the job, so that printDesign ignores
\* every click in between.
OnePrintJob ==
  /\ [](jobs + loads <= 1)
  /\ [](jobs + loads = 1 => isPrinting)
  /\ [][jobs' > jobs => jobs = 0]_vars
  /\ [][(isPrinting /\ clicks' > clicks)
          => (ignored' = ignored + 1 /\ jobs' = jobs /\ loads' = loads)]_vars

\* a click was ignored while printImage is in flight
OnePrintJobWitness ==
  /\ jobs = 1
  /\ isPrinting
  /\ ignored >= 1
  /\ clicks >= 2
  /\ printerClient # "null"

\* C39 as stated: after every printDesign that set isPrinting, isPrinting
\* returns to false on every path; it stays true only while the image load
\* or the printImage call that will reset it is pending
PrintingFlagReset == isPrinting => jobs + loads >= 1

\* ------------------------------------------------------------------------
\* Properties of the transport of printViaUSB / printViaBLE (checked under
\* SpecLife)
\* ------------------------------------------------------------------------
\* C40: once requestDevice has resolved, printViaUSB and printViaBLE call
\* transport.close exactly once, whether every write resolves or one
\* rejects; no packet is written after the close; a write that rejects ends
\* the job, and the call rejects with the error of that write.
TransportClosedOnce ==
  /\ closeCalls <= 1
  /\ lpc = "writing" => closeCalls = 0
  /\ lpc = "settled" => closeCalls = 1
  /\ (lpc = "settled" /\ writeError # "none")
       => (nWritten < nPackets /\ jobOutcome = writeError)

====
